---- MODULE Spec2Model ----
(***************************************************************************)
(* Model of the 3D bin-packing decision core (Tony04051/3DBPP).            *)
(*                                                                         *)
(* State: one cage (packed_items, support_surfaces, corner_points), the    *)
(* record of the last pack() call and a placement log.  One action per     *)
(* packer: CP heuristic, EMS heuristic, CP MCTS, EMS MCTS.                 *)
(*                                                                         *)
(* Numbers: every length is an integer number of centimetres, so the       *)
(* absolute tolerance 1e-6 of the source never decides a comparison        *)
(* (a < b - 1e-6 is a < b, a <= b + 1e-6 is a <= b on integers).  The      *)
(* stability factor 0.75 and the safety ratio 0.8 are kept as exact        *)
(* fractions by cross-multiplication.                                      *)
(***************************************************************************)
EXTENDS Integers, Sequences, FiniteSets, TLC

(* ---------------- bounds of the model ---------------- *)
CageL == 12
CageW == 12
CageH == 8
CageWeightLimit == 7
NumItems == 4
MaxCands == 5
NumSimulations == 3

(* ---------------- program constants ---------------- *)
MEASUREMENT_ERROR == 3
W_Z_SCORE == 1
K_WINDOW == 4
TEMP_AREA_CAPACITY == 3
CAGE_DIMENSIONS == <<100, 100, 100>>
\* STABILITY_FACTOR = 0.75 = STABILITY_NUM / STABILITY_DEN
STABILITY_NUM == 3
STABILITY_DEN == 4
\* SAFETY_MARGIN_RATIO = 0.8 = SAFETY_NUM / SAFETY_DEN
SAFETY_NUM == 4
SAFETY_DEN == 5

Max(a, b) == IF a >= b THEN a ELSE b
Min(a, b) == IF a <= b THEN a ELSE b

(* ---------------- items ---------------- *)
ItemIds == 1..NumItems

\* The items that arrive on the conveyor: base dimensions, weight,
\* allowed rotations, fragility (the fields of Item set by the caller).
\* Items 1..NumItems arrive in the sessions of Spec, items 11..16 (taller and
\* wider boxes) in the sessions of SpecShapes.
ItemCatalogue(i) ==
  CASE i = 1 -> [base_dimensions |-> <<6, 6, 1>>, weight |-> 3,
                 allowed_rotations |-> <<0>>, is_fragile |-> TRUE]
    [] i = 2 -> [base_dimensions |-> <<1, 1, 1>>, weight |-> 1,
                 allowed_rotations |-> <<0>>, is_fragile |-> FALSE]
    [] i = 3 -> [base_dimensions |-> <<5, 5, 1>>, weight |-> 2,
                 allowed_rotations |-> <<0>>, is_fragile |-> FALSE]
    [] i = 4 -> [base_dimensions |-> <<5, 1, 1>>, weight |-> 2,
                 allowed_rotations |-> <<0, 1>>, is_fragile |-> FALSE]
    [] i = 5 -> [base_dimensions |-> <<1, 1, 2>>, weight |-> 6,
                 allowed_rotations |-> <<0, 2>>, is_fragile |-> FALSE]
    [] i = 11 -> [base_dimensions |-> <<1, 1, 1>>, weight |-> 1,
                  allowed_rotations |-> <<0>>, is_fragile |-> FALSE]
    [] i = 12 -> [base_dimensions |-> <<2, 2, 5>>, weight |-> 1,
                  allowed_rotations |-> <<0>>, is_fragile |-> FALSE]
    [] i = 13 -> [base_dimensions |-> <<5, 1, 1>>, weight |-> 1,
                  allowed_rotations |-> <<0>>, is_fragile |-> FALSE]
    [] i = 14 -> [base_dimensions |-> <<1, 1, 5>>, weight |-> 1,
                  allowed_rotations |-> <<0>>, is_fragile |-> FALSE]
    [] i = 15 -> [base_dimensions |-> <<2, 3, 1>>, weight |-> 1,
                  allowed_rotations |-> <<0>>, is_fragile |-> FALSE]
    [] i = 16 -> [base_dimensions |-> <<2, 1, 1>>, weight |-> 1,
                  allowed_rotations |-> <<0>>, is_fragile |-> FALSE]
    [] OTHER -> [base_dimensions |-> <<1, 1, 1>>, weight |-> 1,
                 allowed_rotations |-> <<0>>, is_fragile |-> TRUE]

\* Item.__post_init__
calc_dimensions(i) ==
  LET with_error(b) ==
        <<b[1] + MEASUREMENT_ERROR, b[2] + MEASUREMENT_ERROR, b[3] + MEASUREMENT_ERROR>>
  IN  with_error(ItemCatalogue(i).base_dimensions)

\* Item.get_rotated_dimensions
get_rotated_dimensions(i, rotation_type) ==
  LET rotated(l, w, h) ==
        CASE rotation_type = 0 -> <<l, w, h>>
          [] rotation_type = 1 -> <<w, l, h>>
          [] rotation_type = 2 -> <<l, h, w>>
          [] rotation_type = 3 -> <<h, l, w>>
          [] rotation_type = 4 -> <<w, h, l>>
          [] rotation_type = 5 -> <<h, w, l>>
      of_dims(d) == rotated(d[1], d[2], d[3])
  IN  of_dims(calc_dimensions(i))

\* rotated dimensions of a packed item record
PackedDims(p) == get_rotated_dimensions(p.id, p.rotation_type)

(* ---------------- geometry.py ---------------- *)
get_rect_area(rect) ==
  IF rect[1] >= rect[3] \/ rect[2] >= rect[4] THEN 0
  ELSE (rect[3] - rect[1]) * (rect[4] - rect[2])

get_intersection_area(rect1, rect2) ==
  LET inter_x_min == Max(rect1[1], rect2[1])
      inter_y_min == Max(rect1[2], rect2[2])
      inter_x_max == Min(rect1[3], rect2[3])
      inter_y_max == Min(rect1[4], rect2[4])
  IN  IF inter_x_min >= inter_x_max \/ inter_y_min >= inter_y_max THEN 0
      ELSE (inter_x_max - inter_x_min) * (inter_y_max - inter_y_min)

(* ---------------- data_structures.py ---------------- *)
FloorSurface(dimensions) ==
  [z |-> 0, rect |-> <<0, 0, dimensions[1], dimensions[2]>>, supporting_items |-> {"floor"}]

\* CageTrolley(...) with the default support_surfaces and corner_points
NewCage(dimensions, weight_limit, packed_items) ==
  [dimensions |-> dimensions,
   weight_limit |-> weight_limit,
   packed_items |-> packed_items,
   support_surfaces |-> <<FloorSurface(dimensions)>>,
   corner_points |-> {<<0, 0, 0>>}]

RECURSIVE SumWeights(_, _)
SumWeights(items, n) ==
  IF n = 0 THEN 0 ELSE ItemCatalogue(items[n].id).weight + SumWeights(items, n - 1)

current_weight(cage) == SumWeights(cage.packed_items, Len(cage.packed_items))

\* add_item inserting the new item at the head of packed_items
add_item_prepends(packed_items, item, position, rotation_type) ==
  <<[id |-> item, position |-> position, rotation_type |-> rotation_type]>> \o packed_items

\* the effect of CageTrolley.add_item on packed_items
add_item(packed_items, item, position, rotation_type) ==
  Append(packed_items, [id |-> item, position |-> position, rotation_type |-> rotation_type])

(* ---------------- constraints.py ---------------- *)
\* the boundary check without the far-wall test on x
check_boundary_constraint_no_upper_x(cage, pos, dims) ==
  /\ pos[1] >= 0
  /\ pos[2] >= 0
  /\ pos[3] >= 0
  /\ pos[2] + dims[2] <= cage.dimensions[2]
  /\ pos[3] + dims[3] <= cage.dimensions[3]

check_boundary_constraint(cage, pos, dims) ==
  /\ pos[1] >= 0
  /\ pos[2] >= 0
  /\ pos[3] >= 0
  /\ pos[1] + dims[1] <= cage.dimensions[1]
  /\ pos[2] + dims[2] <= cage.dimensions[2]
  /\ pos[3] + dims[3] <= cage.dimensions[3]

\* the weight check leaving the new item's weight out
check_weight_constraint_ignores_item(cage, item) ==
  current_weight(cage) <= cage.weight_limit

check_weight_constraint(cage, item) ==
  current_weight(cage) + ItemCatalogue(item).weight <= cage.weight_limit

RECURSIVE SupportedAreaSum(_, _, _, _)
\* total_supported_area: intersection areas summed over the surfaces at height z
SupportedAreaSum(surfaces, n, footprint, z) ==
  IF n = 0 THEN 0
  ELSE (IF surfaces[n].z = z THEN get_intersection_area(footprint, surfaces[n].rect) ELSE 0)
       + SupportedAreaSum(surfaces, n - 1, footprint, z)

check_stackable_constraint(cage, pos, dims) ==
  LET item_footprint == <<pos[1], pos[2], pos[1] + dims[1], pos[2] + dims[2]>>
      item_bottom_area == dims[1] * dims[2]
      total_supported_area ==
        SupportedAreaSum(cage.support_surfaces, Len(cage.support_surfaces), item_footprint, pos[3])
  IN  IF item_bottom_area = 0 THEN TRUE
      ELSE STABILITY_DEN * total_supported_area >= STABILITY_NUM * item_bottom_area

\* the collision check with the position test inverted, so that every packed
\* item is skipped
check_collision_constraint_skips_items(cage, pos, dims) == FALSE

\* TRUE when the placement is reported as colliding
check_collision_constraint(cage, pos, dims) ==
  LET x1_min == pos[1]
      y1_min == pos[2]
      z1_min == pos[3]
      x1_max_up == x1_min + dims[1]
      y1_max_up == y1_min + dims[2]
      z1_max_up == cage.dimensions[3] - z1_min
      x1_max_s == x1_min + dims[1]
      y1_max_s == cage.dimensions[3] - y1_min
      z1_max_s == z1_min + dims[3]
      overlaps(x2_min, y2_min, z2_min, x2_max, y2_max, z2_max) ==
        LET x_overlap_up == (x1_min < x2_max) /\ (x1_max_up > x2_min)
            y_overlap_up == (y1_min < y2_max) /\ (y1_max_up > y2_min)
            z_overlap_up == (z1_min < z2_max) /\ (z1_max_up > z2_min)
            x_overlap_s == (x1_min < x2_max) /\ (x1_max_s > x2_min)
            y_overlap_s == (y1_min < y2_max) /\ (y1_max_s > y2_min)
            z_overlap_s == (z1_min < z2_max) /\ (z1_max_s > z2_min)
        IN  /\ (x_overlap_up \/ x_overlap_s)
            /\ (y_overlap_up \/ y_overlap_s)
            /\ (z_overlap_up \/ z_overlap_s)
      box2(packed_pos, packed_dims) ==
        overlaps(packed_pos[1], packed_pos[2], packed_pos[3],
                 packed_pos[1] + packed_dims[1], packed_pos[2] + packed_dims[2],
                 packed_pos[3] + packed_dims[3])
  IN  \E k \in 1..Len(cage.packed_items) :
        box2(cage.packed_items[k].position, PackedDims(cage.packed_items[k]))

\* a placement is accepted wherever it puts the centre of gravity
check_center_of_gravity_constraint_accepts(cage, item, pos, rotation_type) == TRUE

RECURSIVE SumWeightedCenter2(_, _, _)
\* sum over packed items of weight * (2 * centre coordinate on the axis)
SumWeightedCenter2(items, n, axis) ==
  IF n = 0 THEN 0
  ELSE ItemCatalogue(items[n].id).weight
         * (2 * items[n].position[axis] + PackedDims(items[n])[axis])
       + SumWeightedCenter2(items, n - 1, axis)

\* centre of gravity inside the safety rectangle; centres are doubled and the
\* bounds L*(1 -/+ 0.8)/2 are cross-multiplied so the test is exact
check_center_of_gravity_constraint(cage, item, pos, rotation_type) ==
  LET n == Len(cage.packed_items)
      cage_l == cage.dimensions[1]
      cage_w == cage.dimensions[2]
      \* safe_min = L*(DEN-NUM)/(2*DEN) <= sum2/(2*W) <= L*(DEN+NUM)/(2*DEN) = safe_max
      in_safe_zone(final_total_weight, final_sum_wx2, final_sum_wy2) ==
        IF final_total_weight = 0 THEN TRUE
        ELSE /\ cage_l * (SAFETY_DEN - SAFETY_NUM) * final_total_weight <= SAFETY_DEN * final_sum_wx2
             /\ SAFETY_DEN * final_sum_wx2 <= cage_l * (SAFETY_DEN + SAFETY_NUM) * final_total_weight
             /\ cage_w * (SAFETY_DEN - SAFETY_NUM) * final_total_weight <= SAFETY_DEN * final_sum_wy2
             /\ SAFETY_DEN * final_sum_wy2 <= cage_w * (SAFETY_DEN + SAFETY_NUM) * final_total_weight
      with_item(new_item_dims, w) ==
        in_safe_zone(current_weight(cage) + w,
                     SumWeightedCenter2(cage.packed_items, n, 1) + w * (2 * pos[1] + new_item_dims[1]),
                     SumWeightedCenter2(cage.packed_items, n, 2) + w * (2 * pos[2] + new_item_dims[2]))
  IN  with_item(get_rotated_dimensions(item, rotation_type), ItemCatalogue(item).weight)

\* counter of failed predicates; valid when it stays 0
is_placement_valid(cage, item, position, rotation_type) ==
  LET failed(rotated_dims) ==
        LET c1 == IF ~check_boundary_constraint(cage, position, rotated_dims) THEN 1 ELSE 0
            c2 == IF ~check_weight_constraint(cage, item) THEN 1 ELSE 0
            c3 == IF ~check_stackable_constraint(cage, position, rotated_dims) THEN 1 ELSE 0
            c4 == IF check_collision_constraint(cage, position, rotated_dims) THEN 1 ELSE 0
            c5 == IF ~check_center_of_gravity_constraint(cage, item, position, rotation_type)
                  THEN 1 ELSE 0
        IN  c1 + c2 + c3 + c4 + c5
  IN  failed(get_rotated_dimensions(item, rotation_type)) = 0

(* ---------------- EMS/surface_manager.py ---------------- *)
footprint_of(p) ==
  LET footprint(pos, d) == <<pos[1], pos[2], pos[1] + d[1], pos[2] + d[2]>>
  IN  footprint(p.position, PackedDims(p))

\* the sequence s restricted to the elements satisfying Test, in order
RECURSIVE SelectSurfaces(_, _, _)
SelectSurfaces(surfaces, footprint, wantAffected) ==
  IF surfaces = <<>> THEN <<>>
  ELSE LET s == Head(surfaces)
           hit == get_intersection_area(s.rect, footprint) > 0
       IN  (IF hit = wantAffected THEN <<s>> ELSE <<>>)
           \o SelectSurfaces(Tail(surfaces), footprint, wantAffected)

RECURSIVE KeepValidRects(_, _)
KeepValidRects(rects, surface) ==
  IF rects = <<>> THEN <<>>
  ELSE LET rect == Head(rects)
       IN  (IF rect[1] < rect[3] /\ rect[2] < rect[4]
            THEN <<[z |-> surface.z, rect |-> rect, supporting_items |-> surface.supporting_items]>>
            ELSE <<>>)
           \o KeepValidRects(Tail(rects), surface)

\* SurfaceManager._cut_surface
cut_surface(surface, cutter_rect) ==
  LET s_xmin == surface.rect[1]
      s_ymin == surface.rect[2]
      s_xmax == surface.rect[3]
      s_ymax == surface.rect[4]
      inter_xmin == Max(s_xmin, cutter_rect[1])
      inter_ymin == Max(s_ymin, cutter_rect[2])
      inter_xmax == Min(s_xmax, cutter_rect[3])
      inter_ymax == Min(s_ymax, cutter_rect[4])
      remaining_rects ==
           (IF inter_ymin > s_ymin THEN <<(<<s_xmin, s_ymin, s_xmax, inter_ymin>>)>> ELSE <<>>)
        \o (IF inter_ymax < s_ymax THEN <<(<<s_xmin, inter_ymax, s_xmax, s_ymax>>)>> ELSE <<>>)
        \o (IF inter_xmin > s_xmin THEN <<(<<s_xmin, s_ymin, inter_xmin, s_ymax>>)>> ELSE <<>>)
        \o (IF inter_xmax < s_xmax THEN <<(<<inter_xmax, s_ymin, s_xmax, s_ymax>>)>> ELSE <<>>)
  IN  KeepValidRects(remaining_rects, surface)

RECURSIVE CutAll(_, _)
CutAll(affected, footprint) ==
  IF affected = <<>> THEN <<>>
  ELSE cut_surface(Head(affected), footprint) \o CutAll(Tail(affected), footprint)

\* SurfaceManager._try_merge_two_rects; <<>> stands for None
try_merge_two_rects(r1, r2) ==
  IF r1[3] = r2[1] /\ r1[2] = r2[2] /\ r1[4] = r2[4] THEN <<r1[1], r1[2], r2[3], r1[4]>>
  ELSE IF r2[3] = r1[1] /\ r1[2] = r2[2] /\ r1[4] = r2[4] THEN <<r2[1], r1[2], r1[3], r1[4]>>
  ELSE IF r1[4] = r2[2] /\ r1[1] = r2[1] /\ r1[3] = r2[3] THEN <<r1[1], r1[2], r1[3], r2[4]>>
  ELSE IF r2[4] = r1[2] /\ r1[1] = r2[1] /\ r1[3] = r2[3] THEN <<r1[1], r2[2], r1[3], r1[4]>>
  ELSE <<>>

RemoveAt(s, i) == SubSeq(s, 1, i - 1) \o SubSeq(s, i + 1, Len(s))

\* one turn of the while loop of _merge_surfaces only: the first mergeable
\* pair is merged and the group is not scanned again
MergeGroup_once(group) ==
  LET merge_pair(i, j) ==
        Append(RemoveAt(RemoveAt(group, j), i),
               [z |-> group[i].z,
                rect |-> try_merge_two_rects(group[i].rect, group[j].rect),
                supporting_items |-> group[i].supporting_items \cup group[j].supporting_items])
      first_of(pairs) ==
        IF pairs = {} THEN group
        ELSE LET pick(ij) == merge_pair(ij[1], ij[2])
             IN  pick(CHOOSE a \in pairs :
                        \A b \in pairs : a[1] < b[1] \/ (a[1] = b[1] /\ a[2] <= b[2]))
  IN  first_of({ij \in (1..Len(group)) \X (1..Len(group)) :
                  ij[1] < ij[2] /\ try_merge_two_rects(group[ij[1]].rect, group[ij[2]].rect) # <<>>})

\* the while loop of _merge_surfaces on one height group: merge the first
\* mergeable pair (i, j), i < j, in scan order, and rescan
RECURSIVE MergeGroup(_)
MergeGroup(group) ==
  LET merge_pair(i, j) ==
        MergeGroup(Append(RemoveAt(RemoveAt(group, j), i),
                          [z |-> group[i].z,
                           rect |-> try_merge_two_rects(group[i].rect, group[j].rect),
                           supporting_items |-> group[i].supporting_items
                                                  \cup group[j].supporting_items]))
      first_of(pairs) ==
        IF pairs = {} THEN group
        ELSE LET pick(ij) == merge_pair(ij[1], ij[2])
             IN  pick(CHOOSE a \in pairs :
                        \A b \in pairs : a[1] < b[1] \/ (a[1] = b[1] /\ a[2] <= b[2]))
  IN  first_of({ij \in (1..Len(group)) \X (1..Len(group)) :
                  ij[1] < ij[2] /\ try_merge_two_rects(group[ij[1]].rect, group[ij[2]].rect) # <<>>})

RECURSIVE KeepZ(_, _, _)
KeepZ(surfaces, z, same) ==
  IF surfaces = <<>> THEN <<>>
  ELSE (IF (Head(surfaces).z = z) = same THEN <<Head(surfaces)>> ELSE <<>>)
       \o KeepZ(Tail(surfaces), z, same)

\* SurfaceManager._merge_surfaces: groups by z in order of first appearance
RECURSIVE merge_surfaces(_)
merge_surfaces(surfaces) ==
  IF surfaces = <<>> THEN <<>>
  ELSE LET z == Head(surfaces).z
       IN  MergeGroup(KeepZ(surfaces, z, TRUE)) \o merge_surfaces(KeepZ(surfaces, z, FALSE))

\* the surface created on top of the placed item
new_top_surface(placed_item) ==
  [z |-> placed_item.position[3] + PackedDims(placed_item)[3],
   rect |-> footprint_of(placed_item),
   supporting_items |-> {ToString(placed_item.id)}]

\* the surfaces before the merge pass
final_surfaces(placed_item, all_surfaces) ==
  LET combined(item_footprint) ==
        LET unaffected_surfaces == SelectSurfaces(all_surfaces, item_footprint, FALSE)
            affected_surfaces == SelectSurfaces(all_surfaces, item_footprint, TRUE)
            remaining_surfaces == CutAll(affected_surfaces, item_footprint)
        IN  unaffected_surfaces \o remaining_surfaces \o <<new_top_surface(placed_item)>>
  IN  combined(footprint_of(placed_item))

\* SurfaceManager.update_support_surfaces
update_support_surfaces(placed_item, all_surfaces) ==
  merge_surfaces(final_surfaces(placed_item, all_surfaces))

(* ---------------- ordering helpers ---------------- *)
\* lexicographic order on triples
LexLess3(a, b) ==
  \/ a[1] < b[1]
  \/ a[1] = b[1] /\ a[2] < b[2]
  \/ a[1] = b[1] /\ a[2] = b[2] /\ a[3] < b[3]

\* sorted(..., key=lambda s: (s.z, s.rect[1], s.rect[0])): stable insertion sort
SurfaceKey(s) == <<s.z, s.rect[2], s.rect[1]>>

RECURSIVE InsertSurface(_, _)
InsertSurface(sorted, s) ==
  IF sorted = <<>> THEN <<s>>
  ELSE IF LexLess3(SurfaceKey(s), SurfaceKey(Head(sorted)))
       THEN <<s>> \o sorted
       ELSE <<Head(sorted)>> \o InsertSurface(Tail(sorted), s)

RECURSIVE SortSurfaces(_, _)
SortSurfaces(surfaces, n) ==
  IF n = 0 THEN <<>> ELSE InsertSurface(SortSurfaces(surfaces, n - 1), surfaces[n])

sorted_surfaces(cage) == SortSurfaces(cage.support_surfaces, Len(cage.support_surfaces))

\* the anchor of a surface: its (x_min, y_min, z) corner
SurfaceAnchor(s) == <<s.rect[1], s.rect[2], s.z>>

ems_anchors(cage) ==
  LET ss == sorted_surfaces(cage)
  IN  [k \in 1..Len(ss) |-> SurfaceAnchor(ss[k])]

\* a set of distinct points as the sequence sorted by Key (a permutation of
\* the coordinates, so no two points share a key)
RECURSIVE SortPoints(_, _)
SortPoints(points, axes) ==
  IF points = {} THEN <<>>
  ELSE LET Key(p) == <<p[axes[1]], p[axes[2]], p[axes[3]]>>
           m == CHOOSE p \in points : \A q \in points : q = p \/ LexLess3(Key(p), Key(q))
       IN  <<m>> \o SortPoints(points \ {m}, axes)

(* ---------------- placements ---------------- *)
\* pack() returns None: no item chosen
NoPlacement == [item |-> 0, position |-> <<0, 0, 0>>, rotation_type |-> 0]

\* the triples (item, rotation, anchor) in the nested iteration order
\* for item in candidate_items: for rotation_type in allowed_rotations: for anchor
AnchorTriples(item, rot, anchors) ==
  [k \in 1..Len(anchors) |-> [item |-> item, rotation_type |-> rot, position |-> anchors[k]]]

RECURSIVE RotationTriples(_, _, _)
RotationTriples(item, anchors, r) ==
  LET from(rots) ==
        IF r > Len(rots) THEN <<>>
        ELSE AnchorTriples(item, rots[r], anchors) \o RotationTriples(item, anchors, r + 1)
  IN  from(ItemCatalogue(item).allowed_rotations)

RECURSIVE ItemTriples(_, _, _)
ItemTriples(cands, anchors, i) ==
  IF i > Len(cands) THEN <<>>
  ELSE RotationTriples(cands[i], anchors, 1) \o ItemTriples(cands, anchors, i + 1)

(* ---------------- EMS/scoring.py ---------------- *)
\* score = W_Z_SCORE * 1/(1 + z), kept as the fraction <<numerator, denominator>>
calculate_placement_score(position) == <<W_Z_SCORE, 1 + position[3]>>

\* a >= b: a later triple of equal score replaces the best one
ScoreGreater_or_equal(a, b) == a[1] * b[2] >= b[1] * a[2]

\* a > b on fractions with positive denominators
ScoreGreater(a, b) == a[1] * b[2] > b[1] * a[2]

\* -math.inf
MinusInfinity == <<-1, 1>>

(* ---------------- the heuristic scan (CP and EMS heuristic packers) ---------------- *)
RECURSIVE HeuristicScan(_, _, _, _)
\* keeps the first triple of strictly greater score
HeuristicScan(cage, triples, k, best_placement) ==
  IF k > Len(triples) THEN best_placement
  ELSE LET t == triples[k]
           is_valid == is_placement_valid(cage, t.item, t.position, t.rotation_type)
           score == calculate_placement_score(t.position)
       IN  HeuristicScan(cage, triples, k + 1,
             IF is_valid /\ ScoreGreater(score, best_placement.score)
             THEN [score |-> score, item |-> t.item, position |-> t.position,
                   rotation_type |-> t.rotation_type]
             ELSE best_placement)

best_of_scan(cage, cands, anchors) ==
  LET placement_of(b) ==
        [item |-> b.item, position |-> b.position, rotation_type |-> b.rotation_type]
  IN  placement_of(HeuristicScan(cage, ItemTriples(cands, anchors, 1), 1,
                                 [score |-> MinusInfinity, item |-> 0,
                                  position |-> <<0, 0, 0>>, rotation_type |-> 0]))

(* ---------------- EMS/Heuristics/packer.py ---------------- *)
\* Packer.execute_placement (also EMS MCTS_Packer.execute_placement)
ems_execute_placement(cage, placement) ==
  LET items == add_item(cage.packed_items, placement.item, placement.position,
                        placement.rotation_type)
  IN  [cage EXCEPT !.packed_items = items,
                   !.support_surfaces = update_support_surfaces(items[Len(items)],
                                                                cage.support_surfaces)]

\* Packer.pack: the chosen placement (NoPlacement for None)
ems_heuristics_choice(cage, cands) == best_of_scan(cage, cands, ems_anchors(cage))

\* pack() sorting cage.support_surfaces in place instead of scanning a sorted copy
ems_heuristics_pack_sorts_in_place(cage, cands) ==
  LET sorted_cage == [cage EXCEPT !.support_surfaces = sorted_surfaces(cage)]
      commit(best_placement) ==
        IF best_placement.item # 0
        THEN [result |-> best_placement,
              cage |-> ems_execute_placement(sorted_cage, best_placement)]
        ELSE [result |-> NoPlacement, cage |-> sorted_cage]
  IN  commit(ems_heuristics_choice(cage, cands))

ems_heuristics_pack(cage, cands) ==
  LET commit(best_placement) ==
        IF best_placement.item # 0
        THEN [result |-> best_placement, cage |-> ems_execute_placement(cage, best_placement)]
        ELSE [result |-> NoPlacement, cage |-> cage]
  IN  commit(ems_heuristics_choice(cage, cands))

(* ---------------- CP/Heuristics/packer.py ---------------- *)
\* sorted(cage.corner_points, key=lambda p: (p[1], p[0], p[2]))
cp_sorted_points(cage) == SortPoints(cage.corner_points, <<2, 1, 3>>)

\* the test of a point against a packed item without the lower faces
cp_point_inside_strictly(point, p_item) ==
  LET inside(p_pos, p_dims) ==
        /\ p_pos[1] < point[1] /\ point[1] < p_pos[1] + p_dims[1]
        /\ p_pos[2] < point[2] /\ point[2] < p_pos[2] + p_dims[2]
        /\ p_pos[3] < point[3] /\ point[3] < p_pos[3] + p_dims[3]
  IN  inside(p_item.position, PackedDims(p_item))

\* the point lies inside the packed item p_item (lower faces included,
\* upper faces excluded: p_pos - TOL < point < p_pos + p_dims - TOL)
cp_point_inside(point, p_item) ==
  LET inside(p_pos, p_dims) ==
        /\ p_pos[1] <= point[1] /\ point[1] < p_pos[1] + p_dims[1]
        /\ p_pos[2] <= point[2] /\ point[2] < p_pos[2] + p_dims[2]
        /\ p_pos[3] <= point[3] /\ point[3] < p_pos[3] + p_dims[3]
  IN  inside(p_item.position, PackedDims(p_item))

\* Packer._update_corner_points, after add_item: the new cage.corner_points
update_corner_points(packed_items, corner_points, placed_item) ==
  LET kept(all_potential_points) ==
        {point \in all_potential_points :
           /\ ~(\/ point[1] >= CAGE_DIMENSIONS[1]
                \/ point[2] >= CAGE_DIMENSIONS[2]
                \/ point[3] >= CAGE_DIMENSIONS[3])
           /\ ~(\E k \in 1..Len(packed_items) : cp_point_inside(point, packed_items[k]))}
      updated(pos, dims) ==
        kept((corner_points \ {pos})
             \cup {<<pos[1] + dims[1], pos[2], pos[3]>>,
                   <<pos[1], pos[2] + dims[2], pos[3]>>,
                   <<pos[1], pos[2], pos[3] + dims[3]>>})
  IN  updated(placed_item.position, PackedDims(placed_item))

cp_heuristics_choice(cage, cands) == best_of_scan(cage, cands, cp_sorted_points(cage))

cp_heuristics_commit(cage, placement) ==
  LET items == add_item(cage.packed_items, placement.item, placement.position,
                        placement.rotation_type)
  IN  [cage EXCEPT !.packed_items = items,
                   !.corner_points = update_corner_points(items, cage.corner_points,
                                                          items[Len(items)])]

cp_heuristics_pack(cage, cands) ==
  LET commit(best_placement) ==
        IF best_placement.item # 0
        THEN [result |-> best_placement, cage |-> cp_heuristics_commit(cage, best_placement)]
        ELSE [result |-> NoPlacement, cage |-> cage]
  IN  commit(cp_heuristics_choice(cage, cands))

(* ---------------- CP/MCTS/mc_packer.py ---------------- *)
\* point_in_item: strictly inside on every axis
point_in_item(point, packed_item) ==
  LET inside(i, d) ==
        /\ i[1] < point[1] /\ point[1] < i[1] + d[1]
        /\ i[2] < point[2] /\ point[2] < i[2] + d[2]
        /\ i[3] < point[3] /\ point[3] < i[3] + d[3]
  IN  inside(packed_item.position, PackedDims(packed_item))

point_not_in_any_item(point, packed_items) ==
  \A k \in 1..Len(packed_items) : ~point_in_item(point, packed_items[k])

\* the x+, y+ and (unless fragile) z+ corners of a packed item
child_points(it) ==
  LET corners(pos, d) ==
        {<<pos[1] + d[1], pos[2], pos[3]>>, <<pos[1], pos[2] + d[2], pos[3]>>}
        \cup (IF ~ItemCatalogue(it.id).is_fragile
              THEN {<<pos[1], pos[2], pos[3] + d[3]>>} ELSE {})
  IN  corners(it.position, PackedDims(it))

\* MCTS_Packer._generate_candidate_points
generate_candidate_points(cage) ==
  LET points == {<<0, 0, 0>>} \cup
                {p \in UNION {child_points(cage.packed_items[k]) : k \in 1..Len(cage.packed_items)} :
                   point_not_in_any_item(p, cage.packed_items)}
  IN  {p \in points : /\ p[1] < cage.dimensions[1]
                      /\ p[2] < cage.dimensions[2]
                      /\ p[3] < cage.dimensions[3]}

\* tuple comparison key > best_key on (added, -z, -y, -x)
KeyGreater(a, b) ==
  \/ a[1] > b[1]
  \/ a[1] = b[1] /\ a[2] > b[2]
  \/ a[1] = b[1] /\ a[2] = b[2] /\ a[3] > b[3]
  \/ a[1] = b[1] /\ a[2] = b[2] /\ a[3] = b[3] /\ a[4] > b[4]

RECURSIVE BestActionScan(_, _, _, _, _)
\* the loop of _best_valid_action; have = (best_key is not None)
BestActionScan(cage, triples, k, have, best) ==
  IF k > Len(triples) THEN best
  ELSE LET t == triples[k]
           step(key, take) ==
             BestActionScan(cage, triples, k + 1, have \/ take,
               IF take THEN [key |-> key, item |-> t.item, position |-> t.position,
                             rotation_type |-> t.rotation_type]
               ELSE best)
           with_key(key) ==
             step(key, /\ is_placement_valid(cage, t.item, t.position, t.rotation_type)
                       /\ (~have \/ KeyGreater(key, best.key)))
           key_of(d) ==
             with_key(<<d[1] * d[2] * d[3], -t.position[3], -t.position[2], -t.position[1]>>)
       IN  key_of(get_rotated_dimensions(t.item, t.rotation_type))

\* MCTS_Packer._best_valid_action
best_valid_action(cage, item) ==
  LET placement_of(b) ==
        [item |-> b.item, position |-> b.position, rotation_type |-> b.rotation_type]
      scan(points) ==
        IF points = {} THEN NoPlacement
        ELSE placement_of(BestActionScan(cage,
                                         RotationTriples(item, SortPoints(points, <<3, 2, 1>>), 1),
                                         1, FALSE,
                                         [key |-> <<0, 0, 0, 0>>, item |-> 0,
                                          position |-> <<0, 0, 0>>, rotation_type |-> 0]))
  IN  scan(generate_candidate_points(cage))

\* pool = candidates[:k]
pool_of(candidates) == SubSeq(candidates, 1, Min(K_WINDOW, Len(candidates)))

\* root.sim_cage: the packed items copied into a fresh CageTrolley (its
\* support_surfaces and corner_points are the constructor defaults)
cp_mcts_root_cage(cage) == NewCage(cage.dimensions, cage.weight_limit, cage.packed_items)

\* the orders random.shuffle(rem) is modelled with: every cyclic shift, so
\* that every item can come before every other one
Shuffles(rem) ==
  {[k \in 1..Len(rem) |-> rem[((k + j - 2) % Len(rem)) + 1]] : j \in 1..Len(rem)}

RECURSIVE first_expansion(_, _, _)
\* the expansion loop: the action of the first item of the shuffled order
\* that has a best valid action
first_expansion(sim_cage, rem, k) ==
  IF k > Len(rem) THEN NoPlacement
  ELSE LET expand(best_act) ==
             IF best_act.item # 0 THEN best_act ELSE first_expansion(sim_cage, rem, k + 1)
       IN  expand(best_valid_action(sim_cage, rem[k]))

\* MCTS_Packer._order_mcts_first_action.  Selection descends while the node
\* has children and remaining items, so root is expanded only while it has
\* no child: root.children is empty or holds the child of the first
\* iteration that expanded, and the root cage never changes, so that is the
\* first iteration.  shuffled is the order drawn in that iteration.
order_mcts_first_action(cage, candidates, shuffled) ==
  IF pool_of(candidates) = <<>> THEN NoPlacement
  ELSE first_expansion(cp_mcts_root_cage(cage), shuffled, 1)

\* root.children after the loop: no child, or the one child, which is on the
\* path of every one of the max(1, iters) iterations (its w is not modelled:
\* max over a single child does not read it)
cp_root_children(best, iters) ==
  IF best.item = 0 THEN <<>> ELSE <<[action |-> best, n |-> Max(1, iters)]>>

\* MCTS_Packer.pack: cage.add_item only
cp_mcts_commit(cage, best) ==
  [cage EXCEPT !.packed_items = add_item(cage.packed_items, best.item, best.position,
                                         best.rotation_type)]

cp_mcts_pack(cage, candidates, shuffled) ==
  LET commit(best) ==
        IF candidates = <<>> \/ best.item = 0
        THEN [result |-> NoPlacement, cage |-> cage]
        ELSE [result |-> best, cage |-> cp_mcts_commit(cage, best)]
  IN  commit(order_mcts_first_action(cage, candidates, shuffled))

(* ---------------- EMS/MCTS/mc_packer.py ---------------- *)
RECURSIVE first_valid_anchor(_, _, _, _, _)
\* the first anchor, in sorted order, that is valid for (item, rot); 0 if none
first_valid_anchor(cage, item, rot, anchors, k) ==
  IF k > Len(anchors) THEN 0
  ELSE IF is_placement_valid(cage, item, anchors[k], rot) THEN k
  ELSE first_valid_anchor(cage, item, rot, anchors, k + 1)

RECURSIVE possible_actions_of_item(_, _, _, _)
possible_actions_of_item(cage, item, anchors, r) ==
  LET action_at(rot, k) ==
        IF k # 0 THEN <<[item |-> item, position |-> anchors[k], rotation_type |-> rot]>>
        ELSE <<>>
      of_rotation(rot) == action_at(rot, first_valid_anchor(cage, item, rot, anchors, 1))
      from(rots) ==
        IF r > Len(rots) THEN <<>>
        ELSE of_rotation(rots[r]) \o possible_actions_of_item(cage, item, anchors, r + 1)
  IN  from(ItemCatalogue(item).allowed_rotations)

RECURSIVE possible_actions_from(_, _, _, _)
possible_actions_from(cage, items, anchors, i) ==
  IF i > Len(items) THEN <<>>
  ELSE possible_actions_of_item(cage, items[i], anchors, 1)
       \o possible_actions_from(cage, items, anchors, i + 1)

\* MCTS_Packer._get_possible_actions
get_possible_actions(items, cage) == possible_actions_from(cage, items, ems_anchors(cage), 1)

\* MCTS_Packer._find_first_valid_action: the first valid (rotation, anchor)
RECURSIVE find_first_valid_action(_, _, _, _)
find_first_valid_action(item, cage, anchors, r) ==
  LET action_at(rot, k) ==
        IF k # 0 THEN [item |-> item, position |-> anchors[k], rotation_type |-> rot]
        ELSE find_first_valid_action(item, cage, anchors, r + 1)
      from(rots) ==
        IF r > Len(rots) THEN NoPlacement
        ELSE action_at(rots[r], first_valid_anchor(cage, item, rots[r], anchors, 1))
  IN  from(ItemCatalogue(item).allowed_rotations)

\* rollout_depth = TEMP_AREA_CAPACITY + 1 (the default of MCTS_Packer.__init__)
rollout_depth == TEMP_AREA_CAPACITY + 1

\* the orders random.shuffle can leave a list of distinct items in
RECURSIVE Orders(_)
Orders(items) ==
  IF items = {} THEN {<<>>}
  ELSE UNION {{<<x>> \o rest : rest \in Orders(items \ {x})} : x \in items}

RECURSIVE rollout(_, _, _, _, _)
\* the loop of _simulate: every placed item rebuilds sim_cage.support_surfaces
\* from the surfaces of the cage _simulate was handed (all_surfaces =
\* cage.support_surfaces), not from those of sim_cage
rollout(cage, sim_cage, items_to_place, depth, placed_volume) ==
  IF depth = 0 \/ items_to_place = <<>> THEN placed_volume
  ELSE LET placed(action, dims, packed) ==
             rollout(cage,
                     [sim_cage EXCEPT !.packed_items = packed,
                                      !.support_surfaces =
                                        update_support_surfaces(packed[Len(packed)],
                                                                cage.support_surfaces)],
                     Tail(items_to_place), depth - 1,
                     placed_volume + dims[1] * dims[2] * dims[3])
           step(action) ==
             IF action.item # 0
             THEN placed(action, get_rotated_dimensions(action.item, action.rotation_type),
                         add_item(sim_cage.packed_items, action.item, action.position,
                                  action.rotation_type))
             ELSE rollout(cage, sim_cage, Tail(items_to_place), depth - 1, placed_volume)
       IN  step(find_first_valid_action(Head(items_to_place), sim_cage,
                                        ems_anchors(sim_cage), 1))

\* a CageTrolley built from copies of the items and surfaces of cage; an empty
\* surface list is replaced by the floor (__post_init__)
copy_of_cage(cage) ==
  [NewCage(cage.dimensions, cage.weight_limit, cage.packed_items)
     EXCEPT !.support_surfaces = IF cage.support_surfaces = <<>> THEN @
                                 ELSE cage.support_surfaces]

\* MCTS_Packer._simulate, for the order shuffled that random.shuffle left
\* items_to_place in
simulate(cage, shuffled) == rollout(cage, copy_of_cage(cage), shuffled, rollout_depth, 0)

\* items_to_place before the shuffle, as a set
items_to_place_of(cage, items) ==
  {items[k] : k \in 1..Len(items)} \ {cage.packed_items[k].id : k \in 1..Len(cage.packed_items)}

\* the scores _simulate can return
simulation_results(cage, items) ==
  {simulate(cage, shuffled) : shuffled \in Orders(items_to_place_of(cage, items))}

(* ---------------- EMS/MCTS/mcts_node.py ---------------- *)
\* MCTSNode.__init__; actions_known = (possible_actions is not None).  The
\* tree is the sequence of its nodes in order of creation, root first, and
\* parent and children hold indices into it.
MCTSNode(parent, action) ==
  [parent |-> parent, action |-> action, children |-> <<>>, w |-> 0, n |-> 0,
   possible_actions |-> <<>>, actions_known |-> FALSE]

is_fully_expanded(node) ==
  node.actions_known /\ Len(node.children) = Len(node.possible_actions)

\* 10^6 * C * sqrt(ln(parent_n) / child_n) for C = 1.41, rounded down
explore_term(parent_n, child_n) ==
  LET row(r) == r[child_n]
  IN  CASE parent_n = 1 -> row(<<0, 0, 0, 0, 0>>)
        [] parent_n = 2 -> row(<<1173902, 830074, 677752, 586951, 524984>>)
        [] parent_n = 3 -> row(<<1477887, 1045024, 853258, 738943, 660931>>)
        [] parent_n = 4 -> row(<<1660148, 1173902, 958486, 830074, 742440>>)
        [] parent_n = 5 -> row(<<1788777, 1264856, 1032750, 894388, 799965>>)
        [] parent_n = 6 -> row(<<1887378, 1334578, 1089678, 943689, 844061>>)

\* uct_score of child a > uct_score of child b (both visited), with
\* uct_score = w / n + explore_term, compared after multiplying by a.n * b.n
uct_greater(parent_n, a, b) ==
  a.w * b.n * 1000000 + explore_term(parent_n, a.n) * a.n * b.n
    > b.w * a.n * 1000000 + explore_term(parent_n, b.n) * a.n * b.n

RECURSIVE best_child_scan(_, _, _, _)
\* the loop of select_best_child from the k-th child on; every child has
\* n >= 1, so the first child beats best_score = -inf
best_child_scan(tree, node, k, best_child) ==
  IF k > Len(tree[node].children) THEN best_child
  ELSE best_child_scan(tree, node, k + 1,
         IF best_child = 0 \/ uct_greater(tree[node].n, tree[tree[node].children[k]],
                                          tree[best_child])
         THEN tree[node].children[k] ELSE best_child)

select_best_child(tree, node) == best_child_scan(tree, node, 1, 0)

(* ---------------- EMS/MCTS/mc_packer.py: the search ---------------- *)
\* items without the first one whose id is item
remove_item(items, item) ==
  LET at == {k \in 1..Len(items) : items[k] = item}
      first == CHOOSE k \in at : \A j \in at : k <= j
  IN  IF at = {} THEN items
      ELSE SubSeq(items, 1, first - 1) \o SubSeq(items, first + 1, Len(items))

RECURSIVE select(_, _, _, _, _)
\* MCTS_Packer._select from node on: the node reached, the path to it, the
\* items left and the simulation cage with the items of the path added
\* (add_item only: its support_surfaces stay those of the real cage)
select(tree, node, path, remaining_items, cage) ==
  IF is_fully_expanded(tree[node]) /\ tree[node].children # <<>>
  THEN LET descend(child) ==
             select(tree, child, Append(path, child),
                    remove_item(remaining_items, tree[child].action.item),
                    IF \E k \in 1..Len(remaining_items) :
                         remaining_items[k] = tree[child].action.item
                    THEN [cage EXCEPT !.packed_items =
                            add_item(cage.packed_items, tree[child].action.item,
                                     tree[child].action.position,
                                     tree[child].action.rotation_type)]
                    ELSE cage)
       IN  descend(select_best_child(tree, node))
  ELSE [node |-> node, path |-> path, remaining_items |-> remaining_items, cage |-> cage]

RECURSIVE first_untried_action(_, _, _)
\* the index of the first action whose item no child of the node has; 0 if none
first_untried_action(possible_actions, tried_item_ids, k) ==
  IF k > Len(possible_actions) THEN 0
  ELSE IF possible_actions[k].item \notin tried_item_ids THEN k
  ELSE first_untried_action(possible_actions, tried_item_ids, k + 1)

\* MCTS_Packer._expand: the tree, the node returned and the simulation cage
expand(tree, node, cage, items) ==
  LET known(t) ==
        LET tried_item_ids == {t[t[node].children[k]].action.item :
                                 k \in 1..Len(t[node].children)}
            grow(k) ==
              IF k = 0 THEN [tree |-> t, node |-> node, cage |-> cage]
              ELSE [tree |-> Append([t EXCEPT ![node].children = Append(@, Len(t) + 1)],
                                    MCTSNode(node, t[node].possible_actions[k])),
                    node |-> Len(t) + 1,
                    cage |-> [cage EXCEPT !.packed_items =
                                add_item(cage.packed_items, t[node].possible_actions[k].item,
                                         t[node].possible_actions[k].position,
                                         t[node].possible_actions[k].rotation_type)]]
        IN  grow(first_untried_action(t[node].possible_actions, tried_item_ids, 1))
  IN  IF tree[node].actions_known THEN known(tree)
      ELSE known([tree EXCEPT ![node].possible_actions = get_possible_actions(items, cage),
                              ![node].actions_known = TRUE])

\* MCTS_Packer._backpropagate
backpropagate(tree, path, score) ==
  [k \in 1..Len(tree) |->
     IF \E j \in 1..Len(path) : path[j] = k
     THEN [tree[k] EXCEPT !.n = @ + 1, !.w = @ + score]
     ELSE tree[k]]

\* candidates without the items of the actions on the path
rollout_items_of(tree, path, candidate_items) ==
  LET items_on_path == {tree[path[j]].action.item : j \in 2..Len(path)}
  IN  SelectSeq(candidate_items, LAMBDA i : i \notin items_on_path)

\* one iteration of the loop of MCTS_Packer.pack: the trees it can leave,
\* one for every score the rollout can return
iteration(tree, cage, candidate_items) ==
  LET finish(t, path, sim_cage) ==
        {backpropagate(t, path, simulation_result) :
           simulation_result \in
             simulation_results(sim_cage, rollout_items_of(t, path, candidate_items))}
      expanded(sel, ex) ==
        finish(ex.tree, IF ex.node # sel.node THEN Append(sel.path, ex.node) ELSE sel.path,
               ex.cage)
      selected(sel) ==
        IF ~is_fully_expanded(tree[sel.node])
        THEN expanded(sel, expand(tree, sel.node, sel.cage, sel.remaining_items))
        ELSE finish(tree, sel.path, sel.cage)
  IN  selected(select(tree, 1, <<1>>, candidate_items, copy_of_cage(cage)))

RECURSIVE search_trees(_, _, _)
\* the trees the loop can have built after num_simulations iterations
search_trees(cage, candidate_items, num_simulations) ==
  IF num_simulations = 0 THEN {<<MCTSNode(0, NoPlacement)>>}
  ELSE UNION {iteration(tree, cage, candidate_items) :
                tree \in search_trees(cage, candidate_items, num_simulations - 1)}

\* root.children as the records (action, n, w)
root_children(tree) ==
  [k \in 1..Len(tree[1].children) |->
     [action |-> tree[tree[1].children[k]].action,
      n |-> tree[tree[1].children[k]].n,
      w |-> tree[tree[1].children[k]].w]]

\* what the search leaves for the commit: the statistics of the root children
search_outcomes(cage, candidate_items, num_simulations) ==
  IF candidate_items = <<>> THEN {<<>>}
  ELSE {root_children(tree) : tree \in search_trees(cage, candidate_items, num_simulations)}

\* the last child of greatest n
best_node_last(children) ==
  CHOOSE k \in 1..Len(children) :
    /\ \A j \in 1..Len(children) : children[j].n <= children[k].n
    /\ \A j \in (k + 1)..Len(children) : children[j].n < children[k].n

\* max(root.children, key=lambda c: c.n): the first child of greatest n
best_node(children) ==
  CHOOSE k \in 1..Len(children) :
    /\ \A j \in 1..Len(children) : children[j].n <= children[k].n
    /\ \A j \in 1..(k - 1) : children[j].n < children[k].n

\* MCTS_Packer.pack after the loop, for the root children the search left
ems_mcts_pack(cage, candidate_items, children) ==
  LET commit(best_action) ==
        [result |-> best_action, cage |-> ems_execute_placement(cage, best_action)]
  IN  IF candidate_items = <<>> \/ children = <<>>
      THEN [result |-> NoPlacement, cage |-> cage]
      ELSE commit(children[best_node(children)].action)

(* ---------------- the session: one cage, pack() calls ---------------- *)
\* cage: the cage of the session as the caller of pack() sees it; last: the
\* pack() call that has returned and not been read yet; log: the committed
\* placements; search: the objects and the position of a pack() call that is
\* followed statement by statement (SpecSearch); api: the request the HTTP
\* server has answered and its response (SpecApi)
VARIABLES cage, last, log, search, api

vars == <<cage, last, log, search, api>>

PackedIds(c) == {c.packed_items[k].id : k \in 1..Len(c.packed_items)}

RECURSIVE Ascending(_)
Ascending(S) ==
  IF S = {} THEN <<>>
  ELSE LET m == CHOOSE x \in S : \A y \in S : x <= y
       IN  <<m>> \o Ascending(S \ {m})

Reverse(s) == [k \in 1..Len(s) |-> s[Len(s) + 1 - k]]

\* the candidate lists handed to pack(): items not yet packed, at most
\* MaxCands of them, in ascending or descending id order (or no item at all)
CandidateLists(c) ==
  LET subsets == {S \in SUBSET (ItemIds \ PackedIds(c)) : Cardinality(S) <= MaxCands}
  IN  {Ascending(S) : S \in subsets} \cup {Reverse(Ascending(S)) : S \in subsets}

\* area of the part of the footprint covered by at least one surface at
\* height z, counted in unit cells (each cell once)
UnionSupportedArea(surfaces, footprint, z) ==
  Cardinality({cell \in (footprint[1]..(footprint[3] - 1)) \X (footprint[2]..(footprint[4] - 1)) :
                 \E k \in 1..Len(surfaces) :
                   /\ surfaces[k].z = z
                   /\ surfaces[k].rect[1] <= cell[1] /\ cell[1] < surfaces[k].rect[3]
                   /\ surfaces[k].rect[2] <= cell[2] /\ cell[2] < surfaces[k].rect[4]})

\* what the log keeps of a committed placement: who placed it and how much of
\* its footprint the surfaces of the cage really covered at that moment
LogEntry(packer, before, placement) ==
  LET entry(bottom_area, fp) ==
        [item |-> placement.item,
         packer |-> packer,
         bottom_area |-> bottom_area,
         supported_sum |-> SupportedAreaSum(before.support_surfaces,
                                            Len(before.support_surfaces), fp,
                                            placement.position[3]),
         supported_union |-> UnionSupportedArea(before.support_surfaces, fp,
                                                placement.position[3])]
      of_dims(pos, d) == entry(d[1] * d[2], <<pos[1], pos[2], pos[1] + d[1], pos[2] + d[2]>>)
  IN  of_dims(placement.position,
              get_rotated_dimensions(placement.item, placement.rotation_type))

\* no pack() call has returned and is waiting to be read by the caller
NoCall ==
  [packer |-> "none", candidates |-> <<>>, result |-> NoPlacement,
   before |-> NewCage(<<CageL, CageW, CageH>>, CageWeightLimit, <<>>),
   root_children |-> <<>>]

\* no pack() call is followed statement by statement
NoSearch == [pc |-> "idle"]

\* no HTTP request has been answered
NoRequest == [path |-> "none"]

Init ==
  /\ cage = NewCage(<<CageL, CageW, CageH>>, CageWeightLimit, <<>>)
  /\ last = NoCall
  /\ log = <<>>
  /\ search = NoSearch
  /\ api = NoRequest

\* the call returns: the cage is as pack() left it; children are the root
\* children the search of an MCTS packer ended with
Returned(packer, cands, out, children) ==
  /\ cage' = out.cage
  /\ last' = [packer |-> packer, candidates |-> cands, result |-> out.result, before |-> cage,
              root_children |-> children]
  /\ log' = IF out.result.item # 0 THEN Append(log, LogEntry(packer, cage, out.result)) ELSE log
  /\ UNCHANGED <<search, api>>

CP_Heuristics_Pack ==
  /\ last = NoCall
  /\ \E cands \in CandidateLists(cage) :
    \E out \in {cp_heuristics_pack(cage, cands)} :
      Returned("cp_heuristics", cands, out, <<>>)

EMS_Heuristics_Pack ==
  /\ last = NoCall
  /\ \E cands \in CandidateLists(cage) :
    \E out \in {ems_heuristics_pack(cage, cands)} :
      Returned("ems_heuristics", cands, out, <<>>)

CP_MCTS_Pack ==
  /\ last = NoCall
  /\ \E cands \in CandidateLists(cage) :
    \E shuffled \in Shuffles(pool_of(cands)) \cup (IF cands = <<>> THEN {<<>>} ELSE {}) :
      \E out \in {cp_mcts_pack(cage, cands, shuffled)} :
        Returned("cp_mcts", cands, out, cp_root_children(out.result, NumSimulations))

EMS_MCTS_Pack ==
  /\ last = NoCall
  /\ \E cands \in CandidateLists(cage) :
    \E children \in search_outcomes(cage, cands, NumSimulations) :
      \E out \in {ems_mcts_pack(cage, cands, children)} :
        Returned("ems_mcts", cands, out, children)

\* the caller has read the returned placement (or None) and goes on to its
\* next decision
ReadResult ==
  /\ last # NoCall
  /\ last' = NoCall
  /\ UNCHANGED <<cage, log, search, api>>

Next ==
  \/ ReadResult
  \/ CP_Heuristics_Pack
  \/ EMS_Heuristics_Pack
  \/ CP_MCTS_Pack
  \/ EMS_MCTS_Pack

Spec == Init /\ [][Next]_vars

(* ---------------- sessions on cages of other shapes ---------------- *)
\* start_packing takes the dimensions of the cage from the request
CageShapes == {<<9, 13, 12>>, <<21, 21, 8>>}

ShapeWeightLimit == 6

ShapeItemIds == 11..16

\* one candidate, or two in ascending id order, among the items not packed
ShapeCandidateLists(c) ==
  LET free == ShapeItemIds \ PackedIds(c)
  IN  {<<i>> : i \in free} \cup {<<ij[1], ij[2]>> : ij \in {p \in free \X free : p[1] < p[2]}}

ShapeInit ==
  /\ cage \in {NewCage(d, ShapeWeightLimit, <<>>) : d \in CageShapes}
  /\ last = NoCall
  /\ log = <<>>
  /\ search = NoSearch
  /\ api = NoRequest

Shape_EMS_Heuristics_Pack ==
  /\ last = NoCall
  /\ \E cands \in ShapeCandidateLists(cage) :
    \E out \in {ems_heuristics_pack(cage, cands)} :
      Returned("ems_heuristics", cands, out, <<>>)

Shape_CP_Heuristics_Pack ==
  /\ last = NoCall
  /\ \E cands \in ShapeCandidateLists(cage) :
    \E out \in {cp_heuristics_pack(cage, cands)} :
      Returned("cp_heuristics", cands, out, <<>>)

ShapeNext ==
  \/ ReadResult
  \/ Shape_EMS_Heuristics_Pack
  \/ Shape_CP_Heuristics_Pack

SpecShapes == ShapeInit /\ [][ShapeNext]_vars

(* ---------- one MCTS pack() call, statement by statement ---------- *)
\* The objects of the call are kept in search: search.items holds the Item
\* objects (an Item reference is an index into it), search.cages the
\* CageTrolley objects, whose packed_items are lists of Item references.
\* position = <<>> stands for None.

\* the CageTrolley pack() is handed
real_cage == 1

\* an Item as the caller builds it from the request
new_item(id) == [id |-> id, position |-> <<>>, rotation_type |-> 0]

\* the cage object c read as a value: its items are the objects its
\* packed_items refer to
view_of_cage(s, c) ==
  [dimensions |-> s.cages[c].dimensions,
   weight_limit |-> s.cages[c].weight_limit,
   packed_items |-> [k \in 1..Len(s.cages[c].packed_items) |->
                       s.items[s.cages[c].packed_items[k]]],
   support_surfaces |-> s.cages[c].support_surfaces,
   corner_points |-> s.cages[c].corner_points]

\* CageTrolley.add_item of the Item object i to the cage object c: the
\* object is written and its reference appended
cage_add_item(s, c, i, position, rotation_type) ==
  [s EXCEPT !.items[i].position = position,
            !.items[i].rotation_type = rotation_type,
            !.cages[c].packed_items = Append(@, i)]

\* CageTrolley(packed_items=[copy.copy(i) for i in c.packed_items], ...): a
\* new cage object (the last of s.cages) holding new Item objects; surfaces
\* are the support_surfaces handed to the constructor, <<>> if none are
new_cage_of_copies(s, c, surfaces) ==
  [s EXCEPT !.items = @ \o [k \in 1..Len(s.cages[c].packed_items) |->
                              s.items[s.cages[c].packed_items[k]]],
            !.cages = Append(@,
              [dimensions |-> s.cages[c].dimensions,
               weight_limit |-> s.cages[c].weight_limit,
               packed_items |-> [k \in 1..Len(s.cages[c].packed_items) |-> Len(s.items) + k],
               support_surfaces |-> IF surfaces = <<>>
                                    THEN <<FloorSurface(s.cages[c].dimensions)>>
                                    ELSE surfaces,
               corner_points |-> {<<0, 0, 0>>}])]

\* the Item object of candidate_items whose id is id
candidate_object(s, id) ==
  s.candidate_items[CHOOSE k \in 1..Len(s.candidates) : s.candidates[k] = id]

\* pack(cage, candidate_items) is entered: the cage object, the objects of
\* its items and one new object for every candidate
begin_pack(packer, c, candidate_items) ==
  [pc |-> "pack", packer |-> packer, candidates |-> candidate_items, before |-> c,
   items |-> c.packed_items \o [k \in 1..Len(candidate_items) |-> new_item(candidate_items[k])],
   candidate_items |-> [k \in 1..Len(candidate_items) |-> Len(c.packed_items) + k],
   cages |-> <<[c EXCEPT !.packed_items = [k \in 1..Len(c.packed_items) |-> k]]>>,
   tree |-> <<>>, node |-> 0, path |-> <<>>, remaining_items |-> <<>>,
   sim_cage |-> 0, rollout_cage |-> 0, items_to_place |-> <<>>, depth |-> 0,
   total |-> 0, iterations |-> 0, rem |-> <<>>]

\* the statement done: the caller's cage is what the cage object now holds
Step(s) ==
  /\ search' = s
  /\ cage' = view_of_cage(s, real_cage)
  /\ UNCHANGED <<last, log, api>>

\* pack() returns result
Return(s, result, children) ==
  /\ search' = [s EXCEPT !.pc = "returned"]
  /\ cage' = view_of_cage(s, real_cage)
  /\ last' = [packer |-> s.packer, candidates |-> s.candidates, result |-> result,
              before |-> s.before, root_children |-> children]
  /\ log' = IF result.item # 0 THEN Append(log, LogEntry(s.packer, s.before, result)) ELSE log
  /\ UNCHANGED api

(* EMS/MCTS/mc_packer.py *)
\* the cage of one simulation is the cage pack() was handed
ems_sim_cage_is_cage(s) == [s EXCEPT !.sim_cage = real_cage]

\* sim_cage = CageTrolley(copies of the items, copies of the surfaces)
ems_sim_cage(s) ==
  [new_cage_of_copies(s, real_cage, s.cages[real_cage].support_surfaces)
     EXCEPT !.sim_cage = Len(s.cages) + 1]

Ems_Pack ==
  /\ search.pc = "pack" /\ search.packer = "ems_mcts"
  /\ IF search.candidates = <<>>
     THEN Return(search, NoPlacement, <<>>)
     ELSE Step([search EXCEPT !.tree = <<MCTSNode(0, NoPlacement)>>, !.pc = "loop"])

\* for _ in range(self.num_simulations): the simulation cage is built
Ems_Loop ==
  /\ search.pc = "loop" /\ search.packer = "ems_mcts"
  /\ IF search.iterations < NumSimulations
     THEN Step([ems_sim_cage(search) EXCEPT !.node = 1, !.path = <<1>>,
                                            !.remaining_items = search.candidates,
                                            !.pc = "select"])
     ELSE Step([search EXCEPT !.pc = "commit"])

\* one turn of the while loop of _select, or its exit
Ems_Select ==
  /\ search.pc = "select" /\ search.packer = "ems_mcts"
  /\ LET descend(child, action) ==
           LET moved == [search EXCEPT !.node = child, !.path = Append(@, child),
                                       !.remaining_items = remove_item(@, action.item)]
           IN  IF \E k \in 1..Len(search.remaining_items) :
                    search.remaining_items[k] = action.item
               THEN cage_add_item(moved, search.sim_cage,
                                  candidate_object(search, action.item),
                                  action.position, action.rotation_type)
               ELSE moved
         to(child) == descend(child, search.tree[child].action)
     IN  IF is_fully_expanded(search.tree[search.node])
            /\ search.tree[search.node].children # <<>>
         THEN Step(to(select_best_child(search.tree, search.node)))
         ELSE Step([search EXCEPT !.pc = "expand"])

\* if not node.is_fully_expanded(): _expand on the simulation cage
Ems_Expand ==
  /\ search.pc = "expand" /\ search.packer = "ems_mcts"
  /\ LET added(ex, action) ==
           cage_add_item([search EXCEPT !.tree = ex.tree, !.node = ex.node,
                                        !.path = Append(@, ex.node), !.pc = "simulate"],
                         search.sim_cage, candidate_object(search, action.item),
                         action.position, action.rotation_type)
         grown(ex) ==
           IF ex.node # search.node THEN added(ex, ex.tree[ex.node].action)
           ELSE [search EXCEPT !.tree = ex.tree, !.pc = "simulate"]
     IN  IF ~is_fully_expanded(search.tree[search.node])
         THEN Step(grown(expand(search.tree, search.node,
                                view_of_cage(search, search.sim_cage),
                                search.remaining_items)))
         ELSE Step([search EXCEPT !.pc = "simulate"])

\* _simulate up to its loop: the cage of the rollout and the shuffled items
Ems_Simulate ==
  /\ search.pc = "simulate" /\ search.packer = "ems_mcts"
  /\ \E shuffled \in Orders(items_to_place_of(view_of_cage(search, search.sim_cage),
                                              rollout_items_of(search.tree, search.path,
                                                               search.candidates))) :
       Step([new_cage_of_copies(search, search.sim_cage,
                                search.cages[search.sim_cage].support_surfaces)
               EXCEPT !.rollout_cage = Len(search.cages) + 1,
                      !.items_to_place = shuffled,
                      !.depth = rollout_depth,
                      !.total = 0,
                      !.pc = "rollout"])

\* one turn of the loop of _simulate, or its exit
Ems_Rollout ==
  /\ search.pc = "rollout" /\ search.packer = "ems_mcts"
  /\ LET next == [search EXCEPT !.items_to_place = Tail(@), !.depth = @ - 1]
         surfaced(s, dims) ==
           [s EXCEPT !.cages[s.rollout_cage].support_surfaces =
                       update_support_surfaces(
                         s.items[s.cages[s.rollout_cage].packed_items[
                                   Len(s.cages[s.rollout_cage].packed_items)]],
                         s.cages[s.sim_cage].support_surfaces),
                     !.total = @ + dims[1] * dims[2] * dims[3]]
         placed(action) ==
           IF action.item # 0
           THEN surfaced(cage_add_item(next, search.rollout_cage,
                                       candidate_object(search, action.item),
                                       action.position, action.rotation_type),
                         get_rotated_dimensions(action.item, action.rotation_type))
           ELSE next
         try(sim) ==
           placed(find_first_valid_action(Head(search.items_to_place), sim,
                                          ems_anchors(sim), 1))
     IN  IF search.depth = 0 \/ search.items_to_place = <<>>
         THEN Step([search EXCEPT !.pc = "backpropagate"])
         ELSE Step(try(view_of_cage(search, search.rollout_cage)))

Ems_Backpropagate ==
  /\ search.pc = "backpropagate" /\ search.packer = "ems_mcts"
  /\ Step([search EXCEPT !.tree = backpropagate(@, search.path, search.total),
                         !.iterations = @ + 1,
                         !.pc = "loop"])

\* after the loop: None, or execute_placement on the cage pack() was handed
Ems_Commit ==
  /\ search.pc = "commit" /\ search.packer = "ems_mcts"
  /\ LET surfaced(s) ==
           [s EXCEPT !.cages[real_cage].support_surfaces =
                       update_support_surfaces(
                         s.items[s.cages[real_cage].packed_items[
                                   Len(s.cages[real_cage].packed_items)]], @)]
         execute_placement(action) ==
           surfaced(cage_add_item(search, real_cage, candidate_object(search, action.item),
                                  action.position, action.rotation_type))
         commit(children, action) == Return(execute_placement(action), action, children)
         after(children) ==
           IF children = <<>> THEN Return(search, NoPlacement, <<>>)
           ELSE commit(children, children[best_node(children)].action)
     IN  after(root_children(search.tree))

(* CP/MCTS/mc_packer.py *)
\* _OrderNode.__init__; sim_cage is a reference to a cage object
OrderNode(parent, remaining, sim_cage, action, added) ==
  [parent |-> parent, children |-> <<>>, w |-> 0, n |-> 0, remaining |-> remaining,
   sim_cage |-> sim_cage, action |-> action, added |-> added]

\* pack and _order_mcts_first_action up to the loop: the root and its cage
Cp_Pack ==
  /\ search.pc = "pack" /\ search.packer = "cp_mcts"
  /\ IF search.candidates = <<>>
     THEN Return(search, NoPlacement, <<>>)
     ELSE Step([new_cage_of_copies(search, real_cage, <<>>)
                  EXCEPT !.tree = <<OrderNode(0, pool_of(search.candidates),
                                              Len(search.cages) + 1, NoPlacement, 0)>>,
                         !.pc = "loop"])

\* for _ in range(max(1, iters))
Cp_Loop ==
  /\ search.pc = "loop" /\ search.packer = "cp_mcts"
  /\ IF search.iterations < Max(1, NumSimulations)
     THEN Step([search EXCEPT !.node = 1, !.path = <<1>>, !.pc = "select"])
     ELSE Step([search EXCEPT !.pc = "commit"])

\* the selection never descends
selection_descends_never(node) == FALSE

\* while node.children and node.remaining
selection_descends(node) == node.children # <<>> /\ node.remaining # <<>>

\* one turn of the selection loop, or its exit.  A node is expanded only
\* when the selection stopped at it, that is when it had no child, so
\* node.children holds one node and max(node.children, ...) is that node.
Cp_Select ==
  /\ search.pc = "select" /\ search.packer = "cp_mcts"
  /\ LET to(child) == [search EXCEPT !.node = child, !.path = Append(@, child)]
     IN  IF selection_descends(search.tree[search.node])
         THEN Step(to(search.tree[search.node].children[1]))
         ELSE Step([search EXCEPT !.pc = "expand"])

\* the expansion: the first item of the shuffled rem (kept in search.rem)
\* that has a best valid action is added to a new cage object, which becomes
\* the cage of the child
Cp_Expand ==
  /\ search.pc = "expand" /\ search.packer = "cp_mcts"
  /\ LET node == search.tree[search.node]
         child(sim_next, best_act, dims) ==
           OrderNode(search.node,
                     SelectSeq(node.remaining, LAMBDA it : it # best_act.item),
                     sim_next, best_act, node.added + dims[1] * dims[2] * dims[3])
         grown(s, sim_next, best_act) ==
           [cage_add_item(s, sim_next, candidate_object(s, best_act.item),
                          best_act.position, best_act.rotation_type)
              EXCEPT !.tree = Append([@ EXCEPT ![search.node].children =
                                                 Append(@, Len(search.tree) + 1)],
                                     child(sim_next, best_act,
                                           get_rotated_dimensions(best_act.item,
                                                                  best_act.rotation_type))),
                     !.node = Len(search.tree) + 1,
                     !.path = Append(@, Len(search.tree) + 1),
                     !.pc = "rollout"]
         expanded(best_act) ==
           IF best_act.item # 0
           THEN grown(new_cage_of_copies(search, node.sim_cage, <<>>),
                      Len(search.cages) + 1, best_act)
           ELSE [search EXCEPT !.pc = "rollout"]
     IN  IF node.remaining # <<>>
         THEN \E rem \in Orders({node.remaining[k] : k \in 1..Len(node.remaining)}) :
                Step([expanded(first_expansion(view_of_cage(search, node.sim_cage), rem, 1))
                        EXCEPT !.rem = rem])
         ELSE Step([search EXCEPT !.pc = "rollout"])

\* total = node.added, and _rollout_order up to its loop: the cage of the
\* rollout and the shuffled items
Cp_Rollout ==
  /\ search.pc = "rollout" /\ search.packer = "cp_mcts"
  /\ LET node == search.tree[search.node]
     IN  IF node.remaining # <<>>
         THEN \E rem \in Orders({node.remaining[k] : k \in 1..Len(node.remaining)}) :
                Step([new_cage_of_copies(search, node.sim_cage, <<>>)
                        EXCEPT !.rollout_cage = Len(search.cages) + 1,
                               !.items_to_place = rem,
                               !.total = node.added,
                               !.pc = "rollout_order"])
         ELSE Step([search EXCEPT !.total = node.added, !.pc = "backpropagate"])

\* one turn of the loop of _rollout_order, or its exit
Cp_RolloutOrder ==
  /\ search.pc = "rollout_order" /\ search.packer = "cp_mcts"
  /\ LET next == [search EXCEPT !.items_to_place = Tail(@)]
         added(act, dims) ==
           [cage_add_item(next, search.rollout_cage, candidate_object(search, act.item),
                          act.position, act.rotation_type)
              EXCEPT !.total = @ + dims[1] * dims[2] * dims[3]]
         placed(act) ==
           IF act.item # 0
           THEN added(act, get_rotated_dimensions(act.item, act.rotation_type))
           ELSE next
     IN  IF search.items_to_place = <<>>
         THEN Step([search EXCEPT !.pc = "backpropagate"])
         ELSE Step(placed(best_valid_action(view_of_cage(search, search.rollout_cage),
                                            Head(search.items_to_place))))

Cp_Backpropagate ==
  /\ search.pc = "backpropagate" /\ search.packer = "cp_mcts"
  /\ Step([search EXCEPT !.tree = backpropagate(@, search.path, search.total),
                         !.iterations = @ + 1,
                         !.pc = "loop"])

\* after the loop: None, or cage.add_item of the action of the child of root
Cp_Commit ==
  /\ search.pc = "commit" /\ search.packer = "cp_mcts"
  /\ LET commit(children, best) ==
           Return(cage_add_item(search, real_cage, candidate_object(search, best.item),
                                best.position, best.rotation_type),
                  best, children)
         after(children) ==
           IF children = <<>> THEN Return(search, NoPlacement, <<>>)
           ELSE commit(children, children[1].action)
     IN  after(root_children(search.tree))

(* the calls followed *)
\* the cages pack() is handed: the empty cage and the cages one heuristic
\* placement leaves
SearchCages ==
  LET empty == NewCage(<<CageL, CageW, CageH>>, CageWeightLimit, <<>>)
  IN  {empty} \cup {ems_heuristics_pack(empty, <<i>>).cage : i \in ItemIds}

SearchInit ==
  /\ cage \in SearchCages
  /\ \E packer \in {"cp_mcts", "ems_mcts"} :
       \E candidate_items \in CandidateLists(cage) :
         search = begin_pack(packer, cage, candidate_items)
  /\ last = NoCall
  /\ log = <<>>
  /\ api = NoRequest

SearchNext ==
  \/ Ems_Pack
  \/ Ems_Loop
  \/ Ems_Select
  \/ Ems_Expand
  \/ Ems_Simulate
  \/ Ems_Rollout
  \/ Ems_Backpropagate
  \/ Ems_Commit
  \/ Cp_Pack
  \/ Cp_Loop
  \/ Cp_Select
  \/ Cp_Expand
  \/ Cp_Rollout
  \/ Cp_RolloutOrder
  \/ Cp_Backpropagate
  \/ Cp_Commit

SpecSearch == SearchInit /\ [][SearchNext]_vars

(* ---------------- app.py: the HTTP handlers ---------------- *)
\* app_state.cage is None: no session has been started
NoCage == [id |-> "None"]

\* the strategy and algorithm strings requests carry
Strategies == {"cp", "ems", "CP", "bl"}
Algorithms == {"heuristics", "mcts", "MCTS", "greedy"}

\* str.lower on those strings
lower(s) ==
  CASE s = "CP" -> "cp"
    [] s = "MCTS" -> "mcts"
    [] OTHER -> s

\* PACKER_INSTANCES.get(packer_key): the packer, "none" for None
PACKER_INSTANCES(packer_key) ==
  CASE packer_key = <<"cp", "heuristics">> -> "cp_heuristics"
    [] packer_key = <<"cp", "mcts">> -> "cp_mcts"
    [] packer_key = <<"ems", "heuristics">> -> "ems_heuristics"
    [] packer_key = <<"ems", "mcts">> -> "ems_mcts"
    [] OTHER -> "none"

\* packer_instance.pack(app_state.cage, candidate_items): what the call can
\* return and leave, with the root children of an MCTS search
pack_outcomes(packer, c, cands) ==
  LET of(out, children) == [out |-> out, children |-> children]
      cp_mcts(out) == of(out, cp_root_children(out.result, NumSimulations))
  IN  CASE packer = "cp_heuristics" -> {of(cp_heuristics_pack(c, cands), <<>>)}
        [] packer = "ems_heuristics" -> {of(ems_heuristics_pack(c, cands), <<>>)}
        [] packer = "cp_mcts" ->
             {cp_mcts(cp_mcts_pack(c, cands, shuffled)) :
                shuffled \in Shuffles(pool_of(cands))
                               \cup (IF cands = <<>> THEN {<<>>} ELSE {})}
        [] packer = "ems_mcts" ->
             {of(ems_mcts_pack(c, cands, children), children) :
                children \in search_outcomes(c, cands, NumSimulations)}

\* the status code of the response when the try block of decide_next_move
\* raised an exception: except Exception catches every exception, the
\* HTTPException the try block raised itself included, and raises
\* HTTPException(status_code=500)
except_Exception(raised_status_code) == 500

\* the request answered: what it asked, the cage it met, the response
Answered(path, strategy, algorithm, status_code, status) ==
  api' = [path |-> path, strategy |-> strategy, algorithm |-> algorithm, before |-> cage,
          status_code |-> status_code, status |-> status]

\* POST /start_packing
Start_Packing ==
  /\ api = NoRequest
  /\ cage' = NewCage(<<CageL, CageW, CageH>>, CageWeightLimit, <<>>)
  /\ last' = NoCall
  /\ log' = <<>>
  /\ Answered("/start_packing", "", "", 200, "success")
  /\ UNCHANGED search

\* GET /get_cage_state
Get_Cage_State ==
  /\ api = NoRequest
  /\ IF cage = NoCage
     THEN Answered("/get_cage_state", "", "", 404, "error")
     ELSE Answered("/get_cage_state", "", "", 200, "success")
  /\ UNCHANGED <<cage, last, log, search>>

\* POST /decide_next_move
Decide_Next_Move ==
  /\ api = NoRequest
  /\ \E strategy \in Strategies : \E algorithm \in Algorithms :
       LET answered(status_code, status) ==
             Answered("/decide_next_move", strategy, algorithm, status_code, status)
           packed(packer, cands, o) ==
             /\ cage' = o.out.cage
             /\ last' = [packer |-> packer, candidates |-> cands, result |-> o.out.result,
                         before |-> cage, root_children |-> o.children]
             /\ log' = IF o.out.result.item # 0
                       THEN Append(log, LogEntry(packer, cage, o.out.result)) ELSE log
             /\ IF o.out.result.item # 0 THEN answered(200, "success")
                ELSE answered(200, "no_move_possible")
             /\ UNCHANGED search
           with(packer, cands) ==
             IF packer = "none"
             THEN /\ answered(except_Exception(400), "error")
                  /\ UNCHANGED <<cage, last, log, search>>
             ELSE \E o \in pack_outcomes(packer, cage, cands) : packed(packer, cands, o)
       IN  IF cage = NoCage
           THEN /\ answered(404, "error")
                /\ UNCHANGED <<cage, last, log, search>>
           ELSE \E cands \in CandidateLists(cage) :
                  with(PACKER_INSTANCES(<<lower(strategy), lower(algorithm)>>), cands)

\* the client has the response and sends its next request
Client_Reads ==
  /\ api # NoRequest
  /\ api' = NoRequest
  /\ last' = NoCall
  /\ UNCHANGED <<cage, log, search>>

ApiInit ==
  /\ cage = NoCage
  /\ last = NoCall
  /\ log = <<>>
  /\ search = NoSearch
  /\ api = NoRequest

ApiNext ==
  \/ Start_Packing
  \/ Get_Cage_State
  \/ Decide_Next_Move
  \/ Client_Reads

SpecApi == ApiInit /\ [][ApiNext]_vars

(* ------------- app.py: the handlers in concurrent threads ------------- *)
\* In SpecServer api is the state of the server process: api.lock is the
\* thread holding app_state.lock (0: free), api.threads the threads that run
\* the handlers (one request each), api.updating the thread whose pack() has
\* appended an item to the cage and not refreshed the anchors yet (0: none),
\* api.serial the cage of a server that runs the answered requests one after
\* the other in the order the lock was released.
NumThreads == 3

Threads == 1..NumThreads

\* the requests clients send
ServerRequests ==
  {[path |-> "/start_packing", strategy |-> "", algorithm |-> "", candidate_items |-> <<>>],
   [path |-> "/get_cage_state", strategy |-> "", algorithm |-> "", candidate_items |-> <<>>],
   [path |-> "/decide_next_move", strategy |-> "cp", algorithm |-> "heuristics",
    candidate_items |-> <<1>>],
   [path |-> "/decide_next_move", strategy |-> "ems", algorithm |-> "MCTS",
    candidate_items |-> <<4>>],
   [path |-> "/decide_next_move", strategy |-> "cp", algorithm |-> "greedy",
    candidate_items |-> <<1>>]}

\* a thread of the pool with no request
IdleThread == [pc |-> "idle", request |-> NoRequest, status_code |-> 0, saw_partial |-> FALSE]

\* Lock.acquire can return: the lock is not held
lock_is_free_always(lock) == TRUE

lock_is_free(lock) == lock = 0

\* the with statement is left only by a return
with_exit_on_return_only(holder, status_code) == IF status_code = 200 THEN 0 ELSE holder

\* with app_state.lock: the holder of the lock after the block is left, by a
\* return or by an exception (status_code is the code of the response)
with_exit(holder, status_code) == 0

\* the packer of a /decide_next_move request
packer_of(request) == PACKER_INSTANCES(<<lower(request.strategy), lower(request.algorithm)>>)

\* the refresh a packer does after cage.add_item: corner points (CP
\* heuristics), support surfaces (EMS), nothing (CP MCTS)
refresh(packer, c) ==
  LET placed == c.packed_items[Len(c.packed_items)]
  IN  CASE packer = "cp_heuristics" ->
             [c EXCEPT !.corner_points = update_corner_points(c.packed_items, @, placed)]
        [] packer \in {"ems_heuristics", "ems_mcts"} ->
             [c EXCEPT !.support_surfaces = update_support_surfaces(placed, @)]
        [] packer = "cp_mcts" -> c

\* the cage a handler that runs alone leaves for the request
serial_handler(c, request) ==
  LET packed(outcomes) == (CHOOSE o \in outcomes : TRUE).out.cage
  IN  CASE request.path = "/start_packing" ->
             NewCage(<<CageL, CageW, CageH>>, CageWeightLimit, <<>>)
        [] request.path = "/get_cage_state" -> c
        [] request.path = "/decide_next_move" ->
             IF c = NoCage \/ packer_of(request) = "none" THEN c
             ELSE packed(pack_outcomes(packer_of(request), c, request.candidate_items))

\* the thread t goes on as thread record th
Thread(t, th) == [api EXCEPT !.threads[t] = th]

\* a client sends a request; a thread of the pool will run its handler
Send(t) ==
  /\ api.threads[t].pc = "idle"
  /\ \E request \in ServerRequests :
       api' = Thread(t, [api.threads[t] EXCEPT !.pc = "waiting", !.request = request])
  /\ UNCHANGED <<cage, last, log, search>>

\* with app_state.lock: the lock is acquired
Acquire(t) ==
  /\ api.threads[t].pc = "waiting"
  /\ lock_is_free(api.lock)
  /\ api' = [Thread(t, [api.threads[t] EXCEPT !.pc = "handler"]) EXCEPT !.lock = t]
  /\ UNCHANGED <<cage, last, log, search>>

\* the body of start_packing
Start_Packing_Body(t) ==
  /\ api.threads[t].pc = "handler"
  /\ api.threads[t].request.path = "/start_packing"
  /\ cage' = NewCage(<<CageL, CageW, CageH>>, CageWeightLimit, <<>>)
  /\ log' = <<>>
  /\ api' = Thread(t, [api.threads[t] EXCEPT !.pc = "exit", !.status_code = 200])
  /\ UNCHANGED <<last, search>>

\* the body of get_cage_state: 404, or the cage is read into the response
Get_Cage_State_Body(t) ==
  /\ api.threads[t].pc = "handler"
  /\ api.threads[t].request.path = "/get_cage_state"
  /\ api' = Thread(t, [api.threads[t] EXCEPT
                         !.pc = "exit",
                         !.status_code = IF cage = NoCage THEN 404 ELSE 200,
                         !.saw_partial = @ \/ api.updating # 0])
  /\ UNCHANGED <<cage, last, log, search>>

\* decide_next_move up to the call of pack(): 404 without a session, the
\* 400 that the except clause turns into 500 for an unknown pair
Decide_Next_Move_Check(t) ==
  /\ api.threads[t].pc = "handler"
  /\ api.threads[t].request.path = "/decide_next_move"
  /\ api' = Thread(t, [api.threads[t] EXCEPT
                         !.pc = IF cage = NoCage \/ packer_of(api.threads[t].request) = "none"
                                THEN "exit" ELSE "pack",
                         !.status_code = IF cage = NoCage THEN 404
                                         ELSE IF packer_of(api.threads[t].request) = "none"
                                         THEN except_Exception(400) ELSE 0])
  /\ UNCHANGED <<cage, last, log, search>>

\* pack() up to cage.add_item: the cage is read, and the chosen item is
\* appended to packed_items; None is answered with no_move_possible
Decide_Next_Move_Pack(t) ==
  /\ api.threads[t].pc = "pack"
  /\ LET th == [api.threads[t] EXCEPT !.saw_partial = @ \/ api.updating # 0]
         packed(packer, placement) ==
           IF placement.item = 0
           THEN /\ api' = Thread(t, [th EXCEPT !.pc = "exit", !.status_code = 200])
                /\ UNCHANGED <<cage, log>>
           ELSE /\ cage' = [cage EXCEPT !.packed_items =
                              add_item(@, placement.item, placement.position,
                                       placement.rotation_type)]
                /\ log' = Append(log, LogEntry(packer, cage, placement))
                /\ api' = [Thread(t, [th EXCEPT !.pc = "refresh"]) EXCEPT !.updating = t]
         of(packer, request) ==
           \E o \in pack_outcomes(packer, cage, request.candidate_items) :
             packed(packer, o.out.result)
     IN  of(packer_of(api.threads[t].request), api.threads[t].request)
  /\ UNCHANGED <<last, search>>

\* pack() after cage.add_item: the anchors of the cage are refreshed, and
\* the placement is answered
Decide_Next_Move_Refresh(t) ==
  /\ api.threads[t].pc = "refresh"
  /\ cage' = refresh(packer_of(api.threads[t].request), cage)
  /\ api' = [Thread(t, [api.threads[t] EXCEPT !.pc = "exit", !.status_code = 200])
               EXCEPT !.updating = 0]
  /\ UNCHANGED <<last, log, search>>

\* the with block is left and the response goes out
Release(t) ==
  /\ api.threads[t].pc = "exit"
  /\ api' = [Thread(t, [api.threads[t] EXCEPT !.pc = "done"])
               EXCEPT !.lock = with_exit(api.lock, api.threads[t].status_code),
                      !.serial = serial_handler(@, api.threads[t].request)]
  /\ UNCHANGED <<cage, last, log, search>>

\* the thread t is inside the with block of its handler
Running(t) == api.threads[t].pc \in {"handler", "pack", "refresh", "exit"}

\* the steps thread t takes inside the with block
Body(t) ==
  \/ Start_Packing_Body(t)
  \/ Get_Cage_State_Body(t)
  \/ Decide_Next_Move_Check(t)
  \/ Decide_Next_Move_Pack(t)
  \/ Decide_Next_Move_Refresh(t)
  \/ Release(t)

\* the steps of the handler run by thread t
Handler(t) == Acquire(t) \/ Body(t)

ServerInit ==
  /\ cage = NoCage
  /\ last = NoCall
  /\ log = <<>>
  /\ search = NoSearch
  /\ api = [lock |-> 0, threads |-> [t \in Threads |-> IdleThread], updating |-> 0,
            serial |-> NoCage]

ServerNext == \E t \in Threads : Send(t) \/ Handler(t)

SpecServer == ServerInit /\ [][ServerNext]_vars

\* the scheduler lets every thread that can take a step take one: a waiting
\* thread takes a lock that stays free, and a thread inside its with block
\* goes on.  Every step of Body(t) changes the position of thread t and one
\* is possible wherever Running(t) holds, so that Running(t) is
\* ENABLED <<Body(t)>>_vars and the second conjunct is WF_vars(Body(t))
\* written out
SpecServerFair ==
  /\ SpecServer
  /\ \A t \in Threads :
       /\ WF_vars(Acquire(t))
       /\ ([]<>(~Running(t)) \/ []<><<Body(t)>>_vars)

(* ---------------- runners/run_cp_heuristics.py: the session driver ---------------- *)
\* perform_single_simulation, statement by statement (the main loop of
\* main.py, lines 58-107, is the same loop around the packer of main.py).
\* In SpecDriver api is the frame of the driver: pc its position,
\* conveyor_items and temp its two lists, best_placement what the last
\* pack() call returned.
ConveyorLen == 5

LOOKAHEAD_DEPTH == 3

\* perform_single_simulation builds its cage from CAGE_DIMENSIONS and
\* CAGE_WEIGHT_LIMIT.  The driver runs on the cage of the model, and on the
\* wider of CageShapes, where (as on the 100 cm cage with boxes of 13 cm) a
\* small box alone in the cage is outside the safety rectangle.
DriverCages ==
  {NewCage(d, CageWeightLimit, <<>>) : d \in {<<CageL, CageW, CageH>>, <<21, 21, 8>>}}

\* the item lists perform_single_simulation is called with
Conveyors == UNION {Orders(S) : S \in SUBSET (1..ConveyorLen)}

\* seq[:n]
Prefix(seq, n) == SubSeq(seq, 1, Min(n, Len(seq)))

\* candidate_items = (temp + conveyor_items[:LOOKAHEAD_DEPTH])[:4]
candidate_items(temp, conveyor_items) ==
  Prefix(temp \o Prefix(conveyor_items, LOOKAHEAD_DEPTH), 4)

\* the placed item stays in the list
pop_id_keeps(items, id) == items

\* the list without its first item of that id
pop_id(items, id) ==
  LET first == CHOOSE k \in 1..Len(items) :
                 items[k] = id /\ \A j \in 1..(k - 1) : items[j] # id
      without(k) == SubSeq(items, 1, k - 1) \o SubSeq(items, k + 1, Len(items))
  IN  without(first)

\* the temp area takes an item whatever it holds
temp_has_room_always(temp) == TRUE

\* len(temp) < TEMP_AREA_CAPACITY
temp_has_room(temp) == Len(temp) < TEMP_AREA_CAPACITY

\* conveyor_items after conveyor_items.pop(0)
conveyor_pop(conveyor_items) == Tail(conveyor_items)

\* the driver goes on as frame f
Frame(f) == api' = f

\* while conveyor_items or temp: both empty, the loop is left
Driver_While_Ends ==
  /\ api.pc = "while"
  /\ api.conveyor_items = <<>> /\ api.temp = <<>>
  /\ Frame([api EXCEPT !.pc = "ended"])
  /\ UNCHANGED <<cage, last, log, search>>

\* the loop body up to the return of packer.pack(cage, candidate_items)
Driver_Pack ==
  /\ api.pc = "while"
  /\ api.conveyor_items # <<>> \/ api.temp # <<>>
  /\ LET call(cands) ==
           IF cands = <<>>
           THEN /\ Frame([api EXCEPT !.pc = "ended"])
                /\ UNCHANGED <<cage, log>>
           ELSE \E out \in {cp_heuristics_pack(cage, cands)} :
                  /\ cage' = out.cage
                  /\ log' = IF out.result.item # 0
                            THEN Append(log, LogEntry("cp_heuristics", cage, out.result))
                            ELSE log
                  /\ Frame([api EXCEPT !.pc = "if", !.best_placement = out.result])
     IN  call(candidate_items(api.temp, api.conveyor_items))
  /\ UNCHANGED <<last, search>>

\* if best_placement: the selected item leaves temp, or else the conveyor
Driver_Remove ==
  /\ api.pc = "if"
  /\ api.best_placement.item # 0
  /\ LET selected_item == api.best_placement.item
         in_temp == \E k \in 1..Len(api.temp) : api.temp[k] = selected_item
     IN  Frame([api EXCEPT
                  !.pc = "while",
                  !.temp = IF in_temp THEN pop_id(@, selected_item) ELSE @,
                  !.conveyor_items = IF in_temp THEN @ ELSE pop_id(@, selected_item)])
  /\ UNCHANGED <<cage, last, log, search>>

\* else, conveyor_items and len(temp) < TEMP_AREA_CAPACITY: the head of the
\* conveyor goes to temp, continue
Driver_Move ==
  /\ api.pc = "if"
  /\ api.best_placement.item = 0
  /\ api.conveyor_items # <<>> /\ temp_has_room(api.temp)
  /\ Frame([api EXCEPT !.pc = "while",
                       !.temp = Append(@, Head(api.conveyor_items)),
                       !.conveyor_items = conveyor_pop(@)])
  /\ UNCHANGED <<cage, last, log, search>>

\* else: break
Driver_Break ==
  /\ api.pc = "if"
  /\ api.best_placement.item = 0
  /\ ~(api.conveyor_items # <<>> /\ temp_has_room(api.temp))
  /\ Frame([api EXCEPT !.pc = "ended"])
  /\ UNCHANGED <<cage, last, log, search>>

DriverInit ==
  /\ cage \in DriverCages
  /\ last = NoCall
  /\ log = <<>>
  /\ search = NoSearch
  /\ api \in {[pc |-> "while", conveyor_items |-> c, temp |-> <<>>,
               best_placement |-> NoPlacement] : c \in Conveyors}

DriverNext ==
  \/ Driver_While_Ends
  \/ Driver_Pack
  \/ Driver_Remove
  \/ Driver_Move
  \/ Driver_Break

SpecDriver == DriverInit /\ [][DriverNext]_vars

\* the driver is about to call pack() (or to break for want of candidates)
AtPack == api.pc = "while" /\ (api.conveyor_items # <<>> \/ api.temp # <<>>)

\* the interpreter goes on with the loop as long as it has a statement to
\* run.  Driver_Pack changes api.pc and is possible wherever AtPack holds
\* (pack() returns from every call), so that AtPack is
\* ENABLED <<Driver_Pack>>_vars and the last conjunct is WF_vars(Driver_Pack)
\* written out
SpecDriverFair ==
  /\ SpecDriver
  /\ WF_vars(Driver_While_Ends)
  /\ WF_vars(Driver_Remove)
  /\ WF_vars(Driver_Move)
  /\ WF_vars(Driver_Break)
  /\ ([]<>(~AtPack) \/ []<><<Driver_Pack>>_vars)

(* ======================= properties ======================= *)
EmsPackers == {"ems_heuristics", "ems_mcts"}
CpPackers == {"cp_heuristics", "cp_mcts"}

\* the box of a packed item: <<x_min, y_min, z_min, x_max, y_max, z_max>>
BoxOf(p) ==
  LET box(pos, d) == <<pos[1], pos[2], pos[3], pos[1] + d[1], pos[2] + d[2], pos[3] + d[3]>>
  IN  box(p.position, PackedDims(p))

\* two boxes share a region of positive volume
BoxesOverlap(a, b) ==
  /\ a[1] < b[4] /\ b[1] < a[4]
  /\ a[2] < b[5] /\ b[2] < a[5]
  /\ a[3] < b[6] /\ b[3] < a[6]

\* the last call returned a placement / returned None
LastPlaced == last.packer # "none" /\ last.result.item # 0
LastNone == last.packer # "none" /\ last.result.item = 0

\* the record add_item appended for the returned placement
LastPlacedItem ==
  [id |-> last.result.item, position |-> last.result.position,
   rotation_type |-> last.result.rotation_type]

\* C1: no two packed items overlap in a region of positive volume, whatever
\* mix of packers placed them.
C1_NonOverlap ==
  \A i \in 1..Len(cage.packed_items) : \A j \in 1..Len(cage.packed_items) :
    i < j => ~BoxesOverlap(BoxOf(cage.packed_items[i]), BoxOf(cage.packed_items[j]))

\* three items packed by packers of both families, one of them stacked
C1_Witness ==
  /\ Len(cage.packed_items) >= 3
  /\ \E k \in 1..Len(cage.packed_items) : cage.packed_items[k].position[3] > 0
  /\ \E k \in 1..Len(log) : log[k].packer \in EmsPackers
  /\ \E k \in 1..Len(log) : log[k].packer \in CpPackers

\* C2: after EMS pack() calls only, the surfaces that existed at the bottom
\* height of every packed item when it was placed covered, each point counted
\* once, at least STABILITY_FACTOR of its footprint.
C2_ReallySupported ==
  (\A k \in 1..Len(log) : log[k].packer \in EmsPackers)
    => \A k \in 1..Len(log) :
         STABILITY_DEN * log[k].supported_union >= STABILITY_NUM * log[k].bottom_area

\* C3: every packed item lies inside the cage.
C3_Containment ==
  \A k \in 1..Len(cage.packed_items) :
    LET b == BoxOf(cage.packed_items[k])
    IN  /\ b[1] >= 0 /\ b[2] >= 0 /\ b[3] >= 0
        /\ b[4] <= cage.dimensions[1]
        /\ b[5] <= cage.dimensions[2]
        /\ b[6] <= cage.dimensions[3]

\* a packed item reaches the far wall in x and another one the ceiling
C3_Witness ==
  /\ \E k \in 1..Len(cage.packed_items) : BoxOf(cage.packed_items[k])[4] = cage.dimensions[1]
  /\ \E k \in 1..Len(cage.packed_items) : BoxOf(cage.packed_items[k])[6] = cage.dimensions[3]

\* C4: the weight of the packed items never exceeds the weight limit.
C4_WeightLimit == current_weight(cage) <= cage.weight_limit

\* the limit binds: pack() returned None for one candidate that every other
\* predicate accepts at some anchor of the cage but that would overload it
C4_Witness ==
  /\ LastNone
  /\ Len(last.candidates) = 1
  /\ ~check_weight_constraint(cage, last.candidates[1])
  /\ \E r \in 1..Len(ItemCatalogue(last.candidates[1]).allowed_rotations) :
       \E a \in 1..Len(ems_anchors(cage)) :
         LET rot == ItemCatalogue(last.candidates[1]).allowed_rotations[r]
             pos == ems_anchors(cage)[a]
             dims == get_rotated_dimensions(last.candidates[1], rot)
         IN  /\ check_boundary_constraint(cage, pos, dims)
             /\ check_stackable_constraint(cage, pos, dims)
             /\ ~check_collision_constraint(cage, pos, dims)
             /\ check_center_of_gravity_constraint(cage, last.candidates[1], pos, rot)

\* C5: no packed item rests on a fragile packed item (bottom at the fragile
\* item's top height, footprints overlapping in positive area).
C5_NothingOnFragile ==
  \A i \in 1..Len(cage.packed_items) : \A j \in 1..Len(cage.packed_items) :
    LET f == cage.packed_items[i]
        u == cage.packed_items[j]
    IN  (i # j /\ ItemCatalogue(f.id).is_fragile)
          => ~(/\ u.position[3] = BoxOf(f)[6]
               /\ get_intersection_area(footprint_of(f), footprint_of(u)) > 0)

\* C6: when pack() returns None the cage is as it was before the call
\* (packed items with their positions and rotations, support surfaces,
\* corner points).
C6_NoneLeavesCage ==
  LastNone =>
    /\ cage.packed_items = last.before.packed_items
    /\ cage.support_surfaces = last.before.support_surfaces
    /\ cage.corner_points = last.before.corner_points

\* None returned for a non-empty candidate list on a cage that holds items
\* and more than one support surface
C6_Witness ==
  /\ LastNone
  /\ last.candidates # <<>>
  /\ Len(cage.packed_items) >= 1
  /\ Len(cage.support_surfaces) >= 2

\* the anchors a packer scans on a cage
AnchorsOf(packer, c) ==
  CASE packer = "cp_heuristics" -> c.corner_points
    [] packer = "cp_mcts" -> generate_candidate_points(c)
    [] OTHER -> {SurfaceAnchor(c.support_surfaces[k]) : k \in 1..Len(c.support_surfaces)}

\* the candidates a packer considers: the first K_WINDOW for the MCTS packers
WindowOf(packer, candidates) ==
  IF packer \in {"cp_mcts", "ems_mcts"} THEN pool_of(candidates) ELSE candidates

\* some considered candidate has a valid (rotation, anchor) on the cage
SomeFeasible(packer, c, candidates) ==
  \E i \in 1..Len(WindowOf(packer, candidates)) :
    LET item == WindowOf(packer, candidates)[i]
    IN  \E r \in 1..Len(ItemCatalogue(item).allowed_rotations) :
          \E pos \in AnchorsOf(packer, c) :
            is_placement_valid(c, item, pos, ItemCatalogue(item).allowed_rotations[r])

\* C7: pack() returns None exactly when no considered candidate has a valid
\* (rotation, anchor) placement on the cage it was called on.
C7_NoneIffInfeasible ==
  last.packer # "none"
    => ((last.result.item = 0) <=> ~SomeFeasible(last.packer, last.before, last.candidates))

C9_SurfacesUpdated ==
  LastPlaced =>
    /\ cage.support_surfaces = update_support_surfaces(LastPlacedItem, last.before.support_surfaces)
    /\ \E k \in 1..Len(cage.support_surfaces) :
         /\ cage.support_surfaces[k].z = BoxOf(LastPlacedItem)[6]
         /\ get_intersection_area(cage.support_surfaces[k].rect, footprint_of(LastPlacedItem))
              = get_rect_area(footprint_of(LastPlacedItem))

\* a swept region <<x_min, y_min, z_min, x_max, y_max, z_max>> meets a packed item
PrismBlocked(c, prism) ==
  \E k \in 1..Len(c.packed_items) : BoxesOverlap(prism, BoxOf(c.packed_items[k]))

TopDownPrism(c, pos, dims) ==
  <<pos[1], pos[2], pos[3], pos[1] + dims[1], pos[2] + dims[2], c.dimensions[3]>>

SidePrism(c, pos, dims) ==
  <<pos[1], pos[2], pos[3], pos[1] + dims[1], c.dimensions[2], pos[3] + dims[3]>>

\* the anchors any packer may try on the cage
AllAnchors(c) ==
  AnchorsOf("cp_heuristics", c) \cup AnchorsOf("cp_mcts", c) \cup AnchorsOf("ems_heuristics", c)

\* C10: the insertion-path predicate rejects a placement only if both the
\* top-down prism and the side prism meet a packed item.
C10_RejectsOnlyIfBothBlocked ==
  \A item \in ItemIds \ PackedIds(cage) :
    \A r \in 1..Len(ItemCatalogue(item).allowed_rotations) :
      \A pos \in AllAnchors(cage) :
        LET dims == get_rotated_dimensions(item, ItemCatalogue(item).allowed_rotations[r])
        IN  check_collision_constraint(cage, pos, dims)
              => /\ PrismBlocked(cage, TopDownPrism(cage, pos, dims))
                 /\ PrismBlocked(cage, SidePrism(cage, pos, dims))

\* the items a packer may still be handed in the session
FreeItems ==
  (IF cage.dimensions \in CageShapes THEN ShapeItemIds ELSE ItemIds) \ PackedIds(cage)

\* C11: whenever both insertion prisms of a candidate placement (top-down to
\* the ceiling, sideways to the wall y = W) each meet a packed item,
\* is_placement_valid is false.
C11_BothBlockedInvalid ==
  \A item \in FreeItems :
    \A r \in 1..Len(ItemCatalogue(item).allowed_rotations) :
      \A pos \in AllAnchors(cage) :
        LET rot == ItemCatalogue(item).allowed_rotations[r]
            dims == get_rotated_dimensions(item, rot)
        IN  (/\ PrismBlocked(cage, TopDownPrism(cage, pos, dims))
             /\ PrismBlocked(cage, SidePrism(cage, pos, dims)))
              => ~is_placement_valid(cage, item, pos, rot)

\* C12: the centre-of-gravity predicate passes for every placement into an
\* empty cage, whatever the item, the anchor and the rotation.
C12_EmptyCagePassesCoG ==
  Len(cage.packed_items) = 0 =>
    \A item \in FreeItems :
      \A r \in 1..Len(ItemCatalogue(item).allowed_rotations) :
        \A pos \in AllAnchors(cage) :
          check_center_of_gravity_constraint(cage, item, pos,
                                             ItemCatalogue(item).allowed_rotations[r])

HeuristicPackers == {"cp_heuristics", "ems_heuristics"}

\* the k-th candidate of the last call has a valid placement at height z with
\* its r-th allowed rotation
RotationFeasibleAtZ(k, r, z) ==
  \E pos \in AnchorsOf(last.packer, last.before) :
    /\ pos[3] = z
    /\ is_placement_valid(last.before, last.candidates[k], pos,
                          ItemCatalogue(last.candidates[k]).allowed_rotations[r])

CandidateFeasibleAtZ(k, z) ==
  \E r \in 1..Len(ItemCatalogue(last.candidates[k]).allowed_rotations) :
    RotationFeasibleAtZ(k, r, z)

\* the returned triple is the k-th candidate with its r-th rotation, is valid,
\* and no valid triple scores higher or is found earlier at the same height
ChosenAs(k, r) ==
  LET chosen(item, rot, at) ==
        /\ item = last.candidates[k]
        /\ rot = ItemCatalogue(item).allowed_rotations[r]
        /\ at \in AnchorsOf(last.packer, last.before)
        /\ is_placement_valid(last.before, item, at, rot)
        /\ \A j \in 1..Len(last.candidates) :
             \A q \in 1..Len(ItemCatalogue(last.candidates[j]).allowed_rotations) :
               \A pos \in AnchorsOf(last.packer, last.before) :
                 is_placement_valid(last.before, last.candidates[j], pos,
                                    ItemCatalogue(last.candidates[j]).allowed_rotations[q])
                   => /\ pos[3] >= at[3]
                      /\ calculate_placement_score(pos)[1] * calculate_placement_score(at)[2]
                           <= calculate_placement_score(at)[1] * calculate_placement_score(pos)[2]
        /\ \A j \in 1..(k - 1) : ~CandidateFeasibleAtZ(j, at[3])
        /\ \A q \in 1..(r - 1) : ~RotationFeasibleAtZ(k, q, at[3])
        /\ \A pos \in AnchorsOf(last.packer, last.before) :
             (pos[3] = at[3] /\ is_placement_valid(last.before, item, pos, rot))
               => (at[2] < pos[2] \/ (at[2] = pos[2] /\ at[1] <= pos[1]))
  IN  chosen(last.result.item, last.result.rotation_type, last.result.position)

\* C13: a heuristic packer (CP or EMS) commits the feasible (item, rotation,
\* anchor) triple of highest score, that is of lowest anchor z; among the
\* feasible triples of that z it is the first candidate in the given order,
\* then the first allowed rotation, then the lowest-y, lowest-x anchor.
C13_HeuristicArgmaxFirstFound ==
  (last.packer \in HeuristicPackers /\ LastPlaced) =>
    /\ \E k \in 1..Len(last.candidates) :
         \E r \in 1..Len(ItemCatalogue(last.candidates[k]).allowed_rotations) : ChosenAs(k, r)
    /\ PackedIds(cage) = PackedIds(last.before) \cup {last.result.item}
    /\ cage.packed_items[Len(cage.packed_items)] = LastPlacedItem

\* a heuristic call in which a later candidate and a later rotation were also
\* feasible at the chosen height, and a second anchor for the chosen triple
C13_Witness ==
  /\ last.packer \in HeuristicPackers
  /\ LastPlaced
  /\ Len(last.candidates) >= 2
  /\ last.result.item = last.candidates[1]
  /\ CandidateFeasibleAtZ(2, last.result.position[3])
  /\ Len(ItemCatalogue(last.result.item).allowed_rotations) >= 2
  /\ RotationFeasibleAtZ(1, 2, last.result.position[3])
  /\ \E pos \in AnchorsOf(last.packer, last.before) :
       /\ pos # last.result.position
       /\ pos[3] = last.result.position[3]
       /\ is_placement_valid(last.before, last.result.item, pos, last.result.rotation_type)

MctsPackers == {"cp_mcts", "ems_mcts"}

\* C14 as stated: an MCTS packer (CP or EMS) commits the action of a root
\* child whose mean reward w/n is maximal among all root children.
C14_CommitsMaxMeanChild ==
  (last.packer \in MctsPackers /\ LastPlaced) =>
    \E k \in 1..Len(last.root_children) :
      /\ last.root_children[k].action = last.result
      /\ \A j \in (1..Len(last.root_children)) \ {k} :
           last.root_children[j].w * last.root_children[k].n
             <= last.root_children[k].w * last.root_children[j].n

\* C14 amended: the CP MCTS packer commits the action of its root child of
\* maximal mean reward, which is the only child root ever gets; the EMS MCTS
\* packer commits the action of the root child of maximal visit count n, the
\* first one created among those of equal count.
C14_CommitsMaxMeanOrMostVisited ==
  /\ (last.packer = "cp_mcts" /\ LastPlaced) =>
       /\ Len(last.root_children) = 1
       /\ last.root_children[1].action = last.result
  /\ (last.packer = "ems_mcts" /\ LastPlaced) =>
       \E k \in 1..Len(last.root_children) :
         /\ last.root_children[k].action = last.result
         /\ \A j \in 1..Len(last.root_children) :
              last.root_children[j].n <= last.root_children[k].n
         /\ \A j \in 1..(k - 1) : last.root_children[j].n < last.root_children[k].n
  /\ (last.packer \in MctsPackers /\ LastNone) => last.root_children = <<>>

\* an EMS search that ended with root children of different visit counts and
\* a committed child that is not the last of them
C14_Witness ==
  /\ last.packer = "ems_mcts"
  /\ LastPlaced
  /\ Len(last.root_children) >= 2
  /\ \E j, k \in 1..Len(last.root_children) :
       last.root_children[j].n < last.root_children[k].n
  /\ last.root_children[Len(last.root_children)].action # last.result

\* C15: MCTS pack() is reproducible.  The packers take no seed (their
\* shuffles come from the generator of the random module, which is no input
\* of the call), so the claim asks that every execution of pack() on the
\* cage and the candidates of the last call returns the placement it returned.
C15_SameInputsSamePlacement ==
  /\ last.packer = "cp_mcts" =>
       \A shuffled \in Shuffles(pool_of(last.candidates)) :
         cp_mcts_pack(last.before, last.candidates, shuffled).result = last.result
  /\ last.packer = "ems_mcts" =>
       \A children \in search_outcomes(last.before, last.candidates, NumSimulations) :
         ems_mcts_pack(last.before, last.candidates, children).result = last.result

\* the call followed has not returned yet
Searching == search.pc \notin {"idle", "returned"}

\* What the statement-by-statement call leaves is what the packers of Spec
\* leave: the same result, cage and (EMS) statistics of the root children.
StepwiseAgreesWithPack ==
  search.pc = "returned" =>
    /\ search.packer = "ems_mcts" =>
         /\ last.root_children \in search_outcomes(last.before, last.candidates, NumSimulations)
         /\ [result |-> last.result, cage |-> cage]
              = ems_mcts_pack(last.before, last.candidates, last.root_children)
    /\ search.packer = "cp_mcts" =>
         \E rem \in Orders({pool_of(last.candidates)[k] :
                              k \in 1..Len(pool_of(last.candidates))}) :
           [result |-> last.result, cage |-> cage]
             = cp_mcts_pack(last.before, last.candidates, rem)

\* every node of the tree of the CP search has at most one child
CpNodesHaveOneChild ==
  (Searching /\ search.packer = "cp_mcts") =>
    \A k \in 1..Len(search.tree) : Len(search.tree[k].children) <= 1

\* C16: while an MCTS pack() call (CP or EMS) is selecting, expanding,
\* simulating or backpropagating, the cage it was handed is the cage it was
\* handed at the call: the same packed items at the same positions with the
\* same rotations, the same support surfaces.  Only the commit after the
\* loop changes it, and it appends the one returned item.
C16_SearchLeavesCage ==
  /\ Searching => cage = search.before
  /\ search.pc = "returned" =>
       /\ SubSeq(cage.packed_items, 1, Len(search.before.packed_items))
            = search.before.packed_items
       /\ Len(cage.packed_items)
            = Len(search.before.packed_items) + (IF last.result.item # 0 THEN 1 ELSE 0)

\* a rollout has put two more items into its cage than the non-empty cage
\* of the call holds, and a candidate object carries a simulated position
C16_Witness ==
  /\ Searching
  /\ search.pc \in {"rollout", "rollout_order"}
  /\ search.rollout_cage # 0
  /\ search.before.packed_items # <<>>
  /\ Len(search.cages[search.rollout_cage].packed_items)
       >= Len(search.cages[real_cage].packed_items) + 2
  /\ \E k \in 1..Len(search.candidate_items) :
       search.items[search.candidate_items[k]].position # <<>>

\* the unit cells of a rectangle <<x_min, y_min, x_max, y_max>>
CellsOf(rect) == (rect[1]..(rect[3] - 1)) \X (rect[2]..(rect[4] - 1))

RECURSIVE SumAreas(_, _)
SumAreas(parts, n) ==
  IF n = 0 THEN 0 ELSE get_rect_area(parts[n].rect) + SumAreas(parts, n - 1)

\* parts is a partition of surface.rect minus the footprint
Partitions(surface, footprint, parts) ==
  /\ \A i \in 1..Len(parts) : \A j \in 1..Len(parts) :
       i < j => get_intersection_area(parts[i].rect, parts[j].rect) = 0
  /\ UNION {CellsOf(parts[i].rect) : i \in 1..Len(parts)}
       = CellsOf(surface.rect) \ CellsOf(footprint)
  /\ SumAreas(parts, Len(parts))
       = get_rect_area(surface.rect) - get_intersection_area(surface.rect, footprint)

\* C17: every surface the update of an EMS placement cuts is partitioned by
\* the cut: the remainders _cut_surface emits do not overlap each other,
\* cover the surface minus the footprint exactly, and their areas sum to the
\* area of the surface minus the area of its intersection with the footprint.
C17_CutPartitions ==
  (LastPlaced /\ last.packer \in EmsPackers) =>
    \A k \in 1..Len(last.before.support_surfaces) :
      LET cut(surface, footprint) ==
            get_intersection_area(surface.rect, footprint) > 0 =>
              Partitions(surface, footprint, cut_surface(surface, footprint))
      IN  cut(last.before.support_surfaces[k], footprint_of(LastPlacedItem))

\* a list of surfaces as the set of its (z, rect, supporting items)
SurfaceSet(surfaces) == {surfaces[k] : k \in 1..Len(surfaces)}

\* the list handed to the merge pass by the update of the last EMS placement
MergeInput == final_surfaces(LastPlacedItem, last.before.support_surfaces)

\* two surfaces of one height that _try_merge_two_rects would merge
Mergeable(a, b) == a.z = b.z /\ try_merge_two_rects(a.rect, b.rect) # <<>>

\* C18: the merge pass is idempotent on every list of surfaces an EMS
\* placement hands it: merging the merged list again gives the same set of
\* (z, rect, supporting items), and the merged list holds no two surfaces of
\* one height that are edge-aligned on one axis and span-equal on the other.
C18_MergeIdempotent ==
  (LastPlaced /\ last.packer \in EmsPackers) =>
    LET idempotent(merged) ==
          /\ SurfaceSet(merge_surfaces(merged)) = SurfaceSet(merged)
          /\ \A i \in 1..Len(merged) : \A j \in 1..Len(merged) :
               i # j => ~Mergeable(merged[i], merged[j])
    IN  idempotent(merge_surfaces(MergeInput))

\* the merge pass of the last EMS placement merged at least two pairs
C18_Witness ==
  /\ LastPlaced /\ last.packer \in EmsPackers
  /\ Len(merge_surfaces(MergeInput)) + 2 <= Len(MergeInput)

\* every placement of the session was committed by the CP heuristic packer
CpHeuristicsOnly == \A k \in 1..Len(log) : log[k].packer = "cp_heuristics"

\* the point is in the open box of the packed item
StrictlyInside(point, box) ==
  /\ box[1] < point[1] /\ point[1] < box[4]
  /\ box[2] < point[2] /\ point[2] < box[5]
  /\ box[3] < point[3] /\ point[3] < box[6]

\* the point is in the box of the packed item or on one of its three lower
\* faces, and not on an upper face
InsideOrOnLowerFace(point, box) ==
  /\ box[1] <= point[1] /\ point[1] < box[4]
  /\ box[2] <= point[2] /\ point[2] < box[5]
  /\ box[3] <= point[3] /\ point[3] < box[6]

\* C19: in a session of CP heuristic pack() calls from the empty cage, no
\* point of cage.corner_points lies strictly inside the box of a packed
\* item.  _update_corner_points removes more than that: no point is left
\* inside a box or on its lower faces either.
C19_CornerPointsOutsideItems ==
  CpHeuristicsOnly =>
    \A point \in cage.corner_points : \A k \in 1..Len(cage.packed_items) :
      /\ ~StrictlyInside(point, BoxOf(cage.packed_items[k]))
      /\ ~InsideOrOnLowerFace(point, BoxOf(cage.packed_items[k]))

\* the last of at least three CP heuristic placements covered a corner point
\* other than its own anchor, and corner points are left
C19_Witness ==
  /\ CpHeuristicsOnly /\ LastPlaced /\ Len(cage.packed_items) >= 3
  /\ cage.corner_points # {}
  /\ \E point \in last.before.corner_points :
       /\ point # last.result.position
       /\ InsideOrOnLowerFace(point, BoxOf(LastPlacedItem))

\* C20: a POST /decide_next_move that meets a session and names a
\* (strategy, algorithm) pair that is no key of PACKER_INSTANCES is answered
\* with status code 400, and the cage of the session is left as it was.
C20_UnknownPairGives400 ==
  (/\ api.path = "/decide_next_move"
   /\ api.before # NoCage
   /\ PACKER_INSTANCES(<<lower(api.strategy), lower(api.algorithm)>>) = "none")
    => (api.status_code = 400 /\ cage = api.before)

\* the threads that are inside a with app_state.lock block
InHandler == {t \in Threads : Running(t)}

\* C21: whatever the interleaving of the handlers of concurrent requests, at
\* most one of them is inside its with block; no handler has read a cage
\* to which an item was appended and whose anchors were not refreshed yet;
\* and whenever no handler holds the lock the cage is the cage the answered
\* requests leave when they run one after the other in the order of their
\* release of the lock.
C21_HandlersAreSerial ==
  /\ Cardinality(InHandler) <= 1
  /\ \A t \in Threads : ~api.threads[t].saw_partial
  /\ api.lock = 0 => cage = api.serial

\* a placement is half done (item appended, anchors not refreshed) while
\* another request waits for the lock
C21_Witness ==
  /\ api.updating # 0
  /\ \E t \in Threads : api.threads[t].pc = "waiting"
  /\ Len(cage.packed_items) >= 1

\* pack() comes back from every call a handler makes of it
PackReturns ==
  \A t \in Threads :
    api.threads[t].pc = "pack" =>
      pack_outcomes(packer_of(api.threads[t].request), cage,
                    api.threads[t].request.candidate_items) # {}

\* C22: on every exit path of a handler (return, 404, the 400 turned into
\* 500, 500) the lock is released: the lock is held only by a thread inside
\* its with block, and every request that waits for the lock acquires it.
C22_LockReleasedOnEveryExit ==
  /\ [](api.lock # 0 => api.lock \in InHandler)
  /\ []PackReturns
  /\ \A t \in Threads :
       (api.threads[t].pc = "waiting") ~> (api.threads[t].pc = "handler")

\* a handler has left by a 404 or a 500, the lock is free and a request
\* waits for it
C22_Witness ==
  /\ api.lock = 0
  /\ \E t \in Threads :
       api.threads[t].pc = "done" /\ api.threads[t].status_code \in {404, 500}
  /\ \E t \in Threads : api.threads[t].pc = "waiting"

\* C23: the temp buffer never holds more than TEMP_AREA_CAPACITY items; an
\* item enters it only as the head of the conveyor, in the step right after
\* pack() returned None, with the buffer below capacity; and the driver then
\* calls pack() again (the step it takes at the head of the loop with an item
\* in the buffer is the call of pack()).
C23_TempBufferBounded ==
  /\ [](Len(api.temp) <= TEMP_AREA_CAPACITY)
  /\ [][(api'.temp # api.temp /\ Len(api'.temp) >= Len(api.temp)) =>
          /\ api.pc = "if" /\ api.best_placement.item = 0
          /\ Len(api.temp) < TEMP_AREA_CAPACITY
          /\ api.conveyor_items # <<>>
          /\ api'.temp = Append(api.temp, Head(api.conveyor_items))
          /\ api'.conveyor_items = Tail(api.conveyor_items)
          /\ api'.pc = "while"]_vars
  /\ [][(api.pc = "while" /\ api.temp # <<>>) => api'.pc = "if"]_vars

\* the buffer is full, pack() has returned None once more and the session
\* has ended with an item left on the conveyor
C23_Witness ==
  /\ api.pc = "ended"
  /\ Len(api.temp) = TEMP_AREA_CAPACITY
  /\ api.conveyor_items # <<>>
  /\ api.best_placement.item = 0

\* one iteration of the loop is done: the driver is back at the loop head or
\* has left the loop
IterationDone ==
  LET pending(f) == Len(f.conveyor_items) + Len(f.temp)
  IN  api.pc = "if" =>
        \/ /\ api'.pc = "ended"
           /\ api.best_placement.item = 0
           /\ Len(api.temp) >= TEMP_AREA_CAPACITY \/ api.conveyor_items = <<>>
           /\ api'.conveyor_items = api.conveyor_items /\ api'.temp = api.temp
        \/ /\ api'.pc = "while"
           /\ api.best_placement.item # 0
           /\ pending(api') = pending(api) - 1
           /\ api.best_placement.item \notin
                {api'.temp[k] : k \in 1..Len(api'.temp)}
                  \cup {api'.conveyor_items[k] : k \in 1..Len(api'.conveyor_items)}
        \/ /\ api'.pc = "while"
           /\ api.best_placement.item = 0
           /\ Len(api'.conveyor_items) = Len(api.conveyor_items) - 1
           /\ Len(api'.temp) = Len(api.temp) + 1

\* C24: the driver loop ends for every conveyor: after a None with the
\* buffer full or the conveyor empty the session ends, and every other
\* iteration packs one item, which leaves the conveyor or the buffer, or
\* moves one item from the conveyor to the buffer.
C24_DriverTerminates ==
  /\ <>(api.pc = "ended")
  /\ [][IterationDone]_vars

\* the session on the wide cage has ended with three or more items packed
\* and nothing left on the conveyor or in the buffer
C24_Witness ==
  /\ api.pc = "ended"
  /\ api.conveyor_items = <<>> /\ api.temp = <<>>
  /\ Len(cage.packed_items) >= 3
  /\ cage.dimensions = <<21, 21, 8>>

\* the surfaces of `before` that are not at height z
OtherHeights(surfaces, z) == {surfaces[k] : k \in {j \in 1..Len(surfaces) : surfaces[j].z # z}}

\* C25: when an EMS packer has placed an item, every surface the cage had at
\* a height other than the bottom height of the item is, with the same rect
\* and the same supporting items, among the surfaces update_support_surfaces
\* hands to the merge pass.
C25_OtherHeightsUnchanged ==
  (last.packer \in {"ems_heuristics", "ems_mcts"} /\ last.result.item # 0) =>
    LET kept(placed_item, all_surfaces) ==
          LET after == final_surfaces(placed_item, all_surfaces)
          IN  OtherHeights(all_surfaces, placed_item.position[3])
                \subseteq {after[k] : k \in 1..Len(after)}
    IN  kept(cage.packed_items[Len(cage.packed_items)], last.before.support_surfaces)

\* the (rotation, anchor) pairs at which item can be placed on the cage c
FeasiblePairs(c, item, anchors) ==
  LET rotations == {ItemCatalogue(item).allowed_rotations[r] :
                      r \in 1..Len(ItemCatalogue(item).allowed_rotations)}
  IN  {ra \in rotations \X anchors : is_placement_valid(c, item, ra[2], ra[1])}

\* act is the action the claim describes for item on the cage c: of the
\* largest rotated volume, and among those at the lowest z, then y, then x;
\* no action only when no pair is feasible
IsBestAction(c, item, anchors, act) ==
  LET volume(rot) ==
        LET of(d) == d[1] * d[2] * d[3] IN of(get_rotated_dimensions(item, rot))
      zyx(pos) == <<pos[3], pos[2], pos[1]>>
      best_of(pairs) ==
        IF act.item = 0 THEN pairs = {}
        ELSE /\ act.item = item
             /\ <<act.rotation_type, act.position>> \in pairs
             /\ \A ra \in pairs :
                  \/ volume(act.rotation_type) > volume(ra[1])
                  \/ /\ volume(act.rotation_type) = volume(ra[1])
                     /\ ~LexLess3(zyx(ra[2]), zyx(act.position))
  IN  best_of(FeasiblePairs(c, item, anchors))

\* the placement a step added at the end of the cage object c, if it added one
Added(c) ==
  LET before == view_of_cage(search, c)
      after == view_of_cage(search', c)
      as_action(p) ==
        [item |-> p.id, position |-> p.position, rotation_type |-> p.rotation_type]
  IN  IF Len(after.packed_items) > Len(before.packed_items)
      THEN as_action(after.packed_items[Len(after.packed_items)])
      ELSE NoPlacement

\* the anchors of the EMS packer on a cage: the corners of its surfaces
AnchorSet(c) == {ems_anchors(c)[k] : k \in 1..Len(ems_anchors(c))}

\* expansion and rollout of the CP MCTS packer take the best action
CpTakesBestAction ==
  /\ (search.pc = "rollout_order" /\ search.items_to_place # <<>>) =>
       IsBestAction(view_of_cage(search, search.rollout_cage), Head(search.items_to_place),
                    generate_candidate_points(view_of_cage(search, search.rollout_cage)),
                    Added(search.rollout_cage))
  /\ (search.pc = "expand" /\ search.packer = "cp_mcts"
        /\ Len(search'.tree) > Len(search.tree)) =>
       LET best(c, act) == IsBestAction(c, act.item, generate_candidate_points(c), act)
       IN  best(view_of_cage(search, search.tree[search.node].sim_cage),
                search'.tree[Len(search'.tree)].action)
  /\ (search.pc = "expand" /\ search.packer = "cp_mcts"
        /\ Len(search'.tree) = Len(search.tree)) =>
       LET none(c) ==
             \A k \in 1..Len(search.tree[search.node].remaining) :
               FeasiblePairs(c, search.tree[search.node].remaining[k],
                             generate_candidate_points(c)) = {}
       IN  none(view_of_cage(search, search.tree[search.node].sim_cage))

\* expansion and rollout of the EMS MCTS packer take the best action
EmsTakesBestAction ==
  /\ (search.pc = "rollout" /\ search.packer = "ems_mcts"
        /\ search.depth # 0 /\ search.items_to_place # <<>>) =>
       IsBestAction(view_of_cage(search, search.rollout_cage), Head(search.items_to_place),
                    AnchorSet(view_of_cage(search, search.rollout_cage)),
                    Added(search.rollout_cage))
  /\ (search.pc = "expand" /\ search.packer = "ems_mcts"
        /\ Len(search'.tree) > Len(search.tree)) =>
       LET best(c, act) == IsBestAction(c, act.item, AnchorSet(c), act)
       IN  best(view_of_cage(search, search.sim_cage),
                search'.tree[Len(search'.tree)].action)

\* C26: the action an MCTS packer takes for an item in an expansion or in a
\* rollout is, among the feasible (rotation, anchor) pairs on the simulated
\* cage, of the largest rotated volume and then at the lowest z, y, x; there
\* is no action only if no pair is feasible.
C26_BestValidAction == [][CpTakesBestAction /\ EmsTakesBestAction]_vars

\* the half of C26 that holds: the CP MCTS packer
C26_CpOnly == [][CpTakesBestAction]_vars

\* the simulated cage object c has its surfaces updated for the item a step
\* placed in it: they are update_support_surfaces of that item and of the
\* surfaces c had before the step
SurfacesFollow(c) ==
  LET placed(before, after) ==
        Len(after.packed_items) > Len(before.packed_items) =>
          after.support_surfaces
            = update_support_surfaces(after.packed_items[Len(after.packed_items)],
                                      before.support_surfaces)
  IN  placed(view_of_cage(search, c), view_of_cage(search', c))

\* the cage object the expansion of the CP search made for the child has
\* the surfaces of the cage of its parent, updated for the item of the child
ChildSurfacesFollow ==
  (search.pc = "expand" /\ search.packer = "cp_mcts"
     /\ Len(search'.tree) > Len(search.tree)) =>
    LET placed(parent, child) ==
          child.support_surfaces
            = update_support_surfaces(child.packed_items[Len(child.packed_items)],
                                      parent.support_surfaces)
    IN  placed(view_of_cage(search, search.tree[search.node].sim_cage),
               view_of_cage(search', search'.tree[Len(search'.tree)].sim_cage))

\* C27: every simulated placement of an MCTS search (selection, expansion,
\* rollout) leaves the simulated cage with the support surfaces it had just
\* before, updated for the placed item.
C27_SimulatedSurfacesFollow ==
  [][/\ (Searching /\ search'.pc # "returned") =>
          \A c \in 2..Len(search.cages) : SurfacesFollow(c)
     /\ ChildSurfacesFollow]_vars

\* every coordinate of the point is strictly below the dimension of the cage
BelowDimensions(point, c) ==
  /\ point[1] < c.dimensions[1]
  /\ point[2] < c.dimensions[2]
  /\ point[3] < c.dimensions[3]

\* the points _update_corner_points filters after the placement of placed:
\* the old points without the used one, and the three corners of the item
PotentialPoints(corner_points, placed) ==
  LET corners(pos, dims) ==
        (corner_points \ {pos})
          \cup {<<pos[1] + dims[1], pos[2], pos[3]>>,
                <<pos[1], pos[2] + dims[2], pos[3]>>,
                <<pos[1], pos[2], pos[3] + dims[3]>>}
  IN  corners(placed.position, PackedDims(placed))

\* C28: after a successful CP pack() every corner point the heuristic packer
\* keeps in cage.corner_points, and every point the generator of the MCTS
\* packer produces for the cage, has each coordinate strictly below the
\* dimension of that cage; and the heuristic packer drops no point that is
\* below the dimensions of the cage and outside the packed items.
C28_CornerPointsBelowDimensions ==
  /\ (last.packer = "cp_heuristics" /\ last.result.item # 0) =>
       /\ \A point \in cage.corner_points : BelowDimensions(point, cage)
       /\ \A point \in PotentialPoints(last.before.corner_points,
                                        cage.packed_items[Len(cage.packed_items)]) :
            (/\ BelowDimensions(point, cage)
             /\ \A k \in 1..Len(cage.packed_items) :
                  ~cp_point_inside(point, cage.packed_items[k]))
              => point \in cage.corner_points
  /\ (last.packer = "cp_mcts" /\ last.result.item # 0) =>
       \A point \in generate_candidate_points(cage) : BelowDimensions(point, cage)

\* twice the weighted sum of the box centres on the axis lies between
\* 0.1 and 0.9 of the dimension times the total weight (sum2 / (2 * weight)
\* is the coordinate of the centroid; the inequalities are multiplied by
\* 20 * weight)
CentroidInside(c, axis) ==
  LET inside(weight, sum2, dimension) ==
        /\ 2 * dimension * weight <= 10 * sum2
        /\ 10 * sum2 <= 18 * dimension * weight
  IN  inside(current_weight(c), SumWeightedCenter2(c.packed_items, Len(c.packed_items), axis),
             c.dimensions[axis])

\* C29: whatever successful pack() calls have filled the cage from empty,
\* the weighted centroid of the centres of the packed boxes is inside
\* [0.1 L, 0.9 L] x [0.1 W, 0.9 W], after every one of the calls.
C29_CentroidInSafetyRectangle ==
  cage.packed_items # <<>> => (CentroidInside(cage, 1) /\ CentroidInside(cage, 2))

\* two boxes are packed, and one of them alone would have its centre
\* outside the rectangle
C29_Witness ==
  /\ Len(cage.packed_items) >= 2
  /\ \E k \in 1..Len(cage.packed_items) :
       LET alone == [cage EXCEPT !.packed_items = <<cage.packed_items[k]>>]
       IN  ~(CentroidInside(alone, 1) /\ CentroidInside(alone, 2))

\* the cage of the root of the CP search and its corner points
RootCage == view_of_cage(search, search.tree[1].sim_cage)

\* item has a feasible placement on the cage of the root
FeasibleAtRoot(item) ==
  FeasiblePairs(RootCage, item, generate_candidate_points(RootCage)) # {}

\* a step of the expansion that appends a child to the tree
CpExpands ==
  /\ search.pc = "expand" /\ search.packer = "cp_mcts"
  /\ Len(search'.tree) > Len(search.tree)

\* the expansion adds its child to a node that has none
ExpandsChildless == CpExpands => search.tree[search.node].children = <<>>

\* the root is expanded in the first iteration only, and its child carries
\* the best valid action of the first item of the shuffled rem that has a
\* feasible placement; the root stays childless when no item of rem has one
RootChildIsFirstFeasible ==
  LET first_feasible(rem, act) ==
        \E j \in 1..Len(rem) :
          /\ rem[j] = act.item
          /\ \A i \in 1..(j - 1) : ~FeasibleAtRoot(rem[i])
          /\ FeasibleAtRoot(rem[j])
          /\ IsBestAction(RootCage, act.item, generate_candidate_points(RootCage), act)
  IN  /\ (CpExpands /\ search.node = 1) =>
        /\ search.iterations = 0
        /\ first_feasible(search'.rem, search'.tree[Len(search'.tree)].action)
      /\ (search.pc = "expand" /\ search.packer = "cp_mcts" /\ search.node = 1
            /\ search.tree[1].children = <<>> /\ search.tree[1].remaining # <<>>
            /\ ~CpExpands) =>
        \A i \in 1..Len(search'.rem) : ~FeasibleAtRoot(search'.rem[i])

\* later iterations leave the child of the root and its action alone
RootChildKept ==
  (search.packer = "cp_mcts" /\ search.tree # <<>> /\ search.tree[1].children # <<>>) =>
    /\ search'.tree[1].children = search.tree[1].children
    /\ search'.tree[search.tree[1].children[1]].action
         = search.tree[search.tree[1].children[1]].action

\* the commit returns the action of the child of the root, or nothing when
\* the root has no child
CommitsRootChild ==
  (search.pc = "commit" /\ search.packer = "cp_mcts") =>
    last'.result = IF search.tree[1].children = <<>> THEN NoPlacement
                   ELSE search.tree[search.tree[1].children[1]].action

\* C30: in the CP MCTS search every node of the tree, the root included, has
\* at most one child at all times, because a child is only ever added to a
\* childless node.  The child of the root is made in the first iteration,
\* with the best valid action of the first item, in that iteration's
\* shuffled order, that has a feasible placement; no later iteration changes
\* it, and it is the action committed, whatever the number of simulations.
C30_SingleChildFirstAction ==
  /\ [](search.packer = "cp_mcts" =>
          \A k \in 1..Len(search.tree) : Len(search.tree[k].children) <= 1)
  /\ [][ExpandsChildless /\ RootChildIsFirstFeasible /\ RootChildKept
          /\ CommitsRootChild]_vars

\* a CP search of several iterations has returned the action of the only
\* child of the root, under which the tree went on growing, although an item
\* of the pool had no feasible placement on the cage of the root
C30_Witness ==
  /\ search.pc = "returned" /\ search.packer = "cp_mcts"
  /\ search.iterations >= 2
  /\ Len(search.tree) >= 3
  /\ Len(search.tree[1].children) = 1
  /\ last.result = search.tree[search.tree[1].children[1]].action
  /\ \E i \in 1..Len(pool_of(last.candidates)) :
       ~FeasibleAtRoot(pool_of(last.candidates)[i])

====
